---------------------------- MODULE Spec2Model ----------------------------
(***************************************************************************)
(* A model of the ereader-sync scripts: the key=value configuration       *)
(* reader (bin/config_reader.py), the PROGRESS line convention             *)
(* (bin/utils/common.py, bin/utils/ui_helpers.py), the uploader            *)
(* (bin/upload_to_epaper.py), the EPUB converter                           *)
(* (bin/converters/convert_epub_to_xtc.py), the GUI's reader of a child    *)
(* script's output and its final status (bin/gui.py), the scrapers         *)
(* (bin/scrapers/scrape_hcr_to_epub.py, bin/scrapers/scrape_hn_to_epub.py) *)
(* and the scraper categories (bin/utils/ui_helpers.py).                   *)
(*                                                                         *)
(* A Python str is a sequence of one-character strings, so that prefix     *)
(* tests, splitting, stripping and parsing are computed and not assumed.   *)
(***************************************************************************)
EXTENDS Integers, Sequences, FiniteSets, TLC

VARIABLES
    cfg_files,      \* config/<name> -> Missing, or the file's lines
    cfg_pc,         \* position of get_config / read_config_file
    cfg_file,       \* the file read_config_file is reading
    cfg_i,          \* index of the next line of that file
    cfg_config,     \* read_config_file's local dict `config`
    cfg_app,        \* get_config's `app_config`
    cfg_outcome,    \* name -> "not_called", "running", "returned" or the exception
                    \* read_config_file(name) raised
    cfg_returns,    \* name -> the dict read_config_file(name) returned
    cfg_result,     \* the dict get_config returned (when cfg_pc = "returned")
    cfg_error,      \* the exception that left get_config, or "none"
    cfg_warned,     \* get_config printed the "secrets.config not found" warning
    pg_pc,          \* progress line round trip: "args", "printed", "parsed"
    pg_args,        \* the arguments of output_progress
    pg_line,        \* what output_progress wrote to stdout
    pg_how,         \* how the reader handed the line to parse_progress_line
    pg_parsed,      \* what parse_progress_line returned
    pg_raised,      \* the exception parse_progress_line let out, or "none"
    up_pc,          \* position of upload_to_epaper.main
    up_fs0,         \* the local files when main started
    up_fs,          \* the local files now
    up_argv,        \* sys.argv[1:]
    up_keep_files,  \* main's keep_files
    up_file_info,   \* main's file_info: <<file_path, rel_path>> pairs
    up_folders,     \* sorted(folders_to_create)
    up_i,           \* index of the next folder, file or uploaded file
    up_success,     \* success_count
    up_fail,        \* fail_count
    up_uploaded,    \* uploaded_files
    up_deleted,     \* deleted_count
    up_requests,    \* the requests sent to the device, with their outcome
    up_progress,    \* the PROGRESS records printed
    up_calls,       \* the calls of create_folder and upload_file, with what they returned
    cv_pc,          \* position of convert_epub_to_xtc
    cv_fs0,         \* the files of the book's directory at the call
    cv_fs,          \* the files of the book's directory now
    cv_epub_path,   \* the argument epub_path
    cv_keep_epub,   \* the argument keep_epub
    cv_tmp,         \* the temporary download directory: "none", "exists", "removed"
    cv_dl,          \* the files of the download directory
    cv_driver,      \* the Chrome driver: "none", "running", "quit"
    cv_seconds,     \* wait_for_download's counter
    cv_xtc_file,    \* what wait_for_download returned
    cv_result,      \* the tuple convert_epub_to_xtc returns (filename left out)
    cv_polls,       \* what each turn of wait_for_download's loop saw and found
    cv_counts,      \* main's success_count, skipped_count and fail_count
    gui_pc,         \* position of the GUI thread that runs and reads the child
    gui_child,      \* the child process: "none", "running", "exited"
    gui_blocked,    \* the write the child is blocked in (a full pipe), or NoWrite
    gui_writes,     \* how many writes the child has begun
    gui_emitted,    \* the lines the child has written to stdout
    gui_stdout,     \* the lines in the stdout pipe
    gui_stderr,     \* the chunks in the stderr pipe
    gui_returncode, \* the child's exit code
    gui_handled,    \* the lines readline() has returned
    gui_events,     \* the callbacks scheduled with self.after(0, ...), oldest first
    gui_bar_log,    \* the values progress_bar.set was called with
    gui_status_log, \* the texts status_label.configure was called with
    gui_details,    \* the texts inserted into output_text
    gui_result,     \* what run_script_with_progress returned
    hcr_pc,         \* position of the call of a function of scrape_hcr_to_epub
    hcr_title,      \* the title given to is_date_title and date_title_to_filename
    hcr_is_date,    \* what is_date_title returned
    hcr_filename,   \* what date_title_to_filename returned
    hcr_page,       \* the post page is_full_letter fetches
    hcr_min_words,  \* min_word_count
    hcr_full,       \* what is_full_letter returned, or the exception it let out
    hcr_archive,    \* the links of the archive page: <<url, title>> pairs
    hcr_letters,    \* the URLs is_full_letter accepts
    hcr_num_posts,  \* num_posts
    hcr_max_cand,   \* max_candidates
    hcr_candidates, \* candidates
    hcr_i,          \* index of the next candidate
    hcr_posts,      \* posts
    hcr_seen_dates, \* seen_dates
    hn_pc,          \* position of get_top_stories
    hn_top,         \* the IDs /topstories.json answers with
    hn_with_url,    \* the IDs whose item has a "url" field
    hn_num_stories, \* num_stories
    hn_story_ids,   \* story_ids
    hn_i,           \* index of the next story ID
    hn_stories,     \* stories (their IDs)
    hn_requested,   \* the IDs whose details were requested
    cat_pc,         \* position of get_scraper_categories
    cat_config,     \* the keys of config, in the order of the dict
    cat_categories, \* categories: <<category_name, keys>> pairs in the order of the dict
    sync_pc,        \* position of SyncTab.sync_files.run after it started the uploader
    sync_returncode,\* process.returncode
    sync_status,    \* what status_label shows
    sync_bar        \* what progress_bar shows

cfgVars == <<cfg_files, cfg_pc, cfg_file, cfg_i, cfg_config, cfg_app,
             cfg_outcome, cfg_returns, cfg_result, cfg_error, cfg_warned>>

pgVars == <<pg_pc, pg_args, pg_line, pg_how, pg_parsed, pg_raised>>

upVars == <<up_pc, up_fs0, up_fs, up_argv, up_keep_files, up_file_info, up_folders, up_i,
            up_success, up_fail, up_uploaded, up_deleted, up_requests, up_progress,
            up_calls>>

cvVars == <<cv_pc, cv_fs0, cv_fs, cv_epub_path, cv_keep_epub, cv_tmp, cv_dl, cv_driver,
            cv_seconds, cv_xtc_file, cv_result, cv_polls, cv_counts>>

guiVars == <<gui_pc, gui_child, gui_blocked, gui_writes, gui_emitted, gui_stdout, gui_stderr,
             gui_returncode, gui_handled, gui_events, gui_bar_log, gui_status_log,
             gui_details, gui_result>>

hcrVars == <<hcr_pc, hcr_title, hcr_is_date, hcr_filename, hcr_page, hcr_min_words, hcr_full,
             hcr_archive, hcr_letters, hcr_num_posts, hcr_max_cand, hcr_candidates, hcr_i,
             hcr_posts, hcr_seen_dates>>

hnVars == <<hn_pc, hn_top, hn_with_url, hn_num_stories, hn_story_ids, hn_i, hn_stories,
            hn_requested>>

catVars == <<cat_pc, cat_config, cat_categories>>

syncVars == <<sync_pc, sync_returncode, sync_status, sync_bar>>

vars == <<cfgVars, pgVars, upVars, cvVars, guiVars, hcrVars, hnVars, catVars, syncVars>>

\* what each script leaves alone
notCfg == <<pgVars, upVars, cvVars, guiVars, hcrVars, hnVars, catVars, syncVars>>
notPg == <<cfgVars, upVars, cvVars, guiVars, hcrVars, hnVars, catVars, syncVars>>
notUp == <<cfgVars, pgVars, cvVars, guiVars, hcrVars, hnVars, catVars, syncVars>>
notCv == <<cfgVars, pgVars, upVars, guiVars, hcrVars, hnVars, catVars, syncVars>>
notGui == <<cfgVars, pgVars, upVars, cvVars, hcrVars, hnVars, catVars, syncVars>>
notHcr == <<cfgVars, pgVars, upVars, cvVars, guiVars, hnVars, catVars, syncVars>>
notHn == <<cfgVars, pgVars, upVars, cvVars, guiVars, hcrVars, catVars, syncVars>>
notCat == <<cfgVars, pgVars, upVars, cvVars, guiVars, hcrVars, hnVars, syncVars>>
notSync == <<cfgVars, pgVars, upVars, cvVars, guiVars, hcrVars, hnVars, catVars>>

-----------------------------------------------------------------------------
(* Python str operations on sequences of characters.                       *)

Whitespace == {" ", "\t", "\n", "\r"}

DecimalDigits == {"0", "1", "2", "3", "4", "5", "6", "7", "8", "9"}

\* Characters for which str.isdigit() is true and that are no decimal digit
\* (Unicode Numeric_Type=Digit, such as SUPERSCRIPT TWO): int() rejects them.
SuperscriptTwo == "<sup2>"

OtherDigits == {SuperscriptTwo}

DigitValue(c) ==
    CASE c = "0" -> 0 [] c = "1" -> 1 [] c = "2" -> 2 [] c = "3" -> 3
      [] c = "4" -> 4 [] c = "5" -> 5 [] c = "6" -> 6 [] c = "7" -> 7
      [] c = "8" -> 8 [] c = "9" -> 9

DigitChar(d) ==
    CASE d = 0 -> "0" [] d = 1 -> "1" [] d = 2 -> "2" [] d = 3 -> "3"
      [] d = 4 -> "4" [] d = 5 -> "5" [] d = 6 -> "6" [] d = 7 -> "7"
      [] d = 8 -> "8" [] d = 9 -> "9"

UpperLetters ==
    <<"A", "B", "C", "D", "E", "F", "G", "H", "I", "J", "K", "L", "M">>
        \o <<"N", "O", "P", "Q", "R", "S", "T", "U", "V", "W", "X", "Y", "Z">>

LowerLetters ==
    <<"a", "b", "c", "d", "e", "f", "g", "h", "i", "j", "k", "l", "m">>
        \o <<"n", "o", "p", "q", "r", "s", "t", "u", "v", "w", "x", "y", "z">>

IndexIn(letters, c) ==
    IF \E i \in 1..Len(letters) : letters[i] = c
    THEN CHOOSE i \in 1..Len(letters) : letters[i] = c
    ELSE 0

LowerChar(c) == IF IndexIn(UpperLetters, c) > 0 THEN LowerLetters[IndexIn(UpperLetters, c)] ELSE c

UpperChar(c) == IF IndexIn(LowerLetters, c) > 0 THEN UpperLetters[IndexIn(LowerLetters, c)] ELSE c

Lower(s) == [i \in 1..Len(s) |-> LowerChar(s[i])]

StartsWith(s, p) == Len(p) <= Len(s) /\ SubSeq(s, 1, Len(p)) = p

EndsWith(s, p) == Len(p) <= Len(s) /\ SubSeq(s, Len(s) - Len(p) + 1, Len(s)) = p

RECURSIVE LStrip(_)
LStrip(s) == IF s # <<>> /\ Head(s) \in Whitespace THEN LStrip(Tail(s)) ELSE s

RECURSIVE RStrip(_)
RStrip(s) ==
    IF s # <<>> /\ s[Len(s)] \in Whitespace THEN RStrip(SubSeq(s, 1, Len(s) - 1)) ELSE s

Strip(s) == RStrip(LStrip(s))

\* s.find(c) + 1: the index of the first c in s, or 0
RECURSIVE FindFrom(_, _, _)
FindFrom(s, c, i) ==
    IF i > Len(s) THEN 0 ELSE IF s[i] = c THEN i ELSE FindFrom(s, c, i + 1)

Find(s, c) == FindFrom(s, c, 1)

\* s.split(sep, maxsplit) for a one-character sep; maxsplit < 0 means no limit
RECURSIVE Split(_, _, _)
Split(s, sep, maxsplit) ==
    LET k == Find(s, sep) IN
    IF maxsplit = 0 \/ k = 0 THEN <<s>>
    ELSE <<SubSeq(s, 1, k - 1)>> \o Split(SubSeq(s, k + 1, Len(s)), sep, maxsplit - 1)

RECURSIVE Join(_, _)
Join(parts, sep) ==
    IF parts = <<>> THEN <<>>
    ELSE IF Len(parts) = 1 THEN parts[1]
    ELSE parts[1] \o sep \o Join(Tail(parts), sep)

\* str.isdigit(): non-empty, every character a digit (decimal or not)
IsDigit(s) == s # <<>> /\ \A i \in 1..Len(s) : s[i] \in DecimalDigits \cup OtherDigits

AllDecimal(s) == s # <<>> /\ \A i \in 1..Len(s) : s[i] \in DecimalDigits

RECURSIVE DecimalValue(_)
DecimalValue(s) ==
    IF s = <<>> THEN 0 ELSE 10 * DecimalValue(SubSeq(s, 1, Len(s) - 1)) + DigitValue(s[Len(s)])

RECURSIVE NatToStr(_)
NatToStr(n) == IF n < 10 THEN <<DigitChar(n)>> ELSE NatToStr(n \div 10) \o <<DigitChar(n % 10)>>

\* str(n) for an int n
IntToStr(n) == IF n < 0 THEN <<"-">> \o NatToStr(0 - n) ELSE NatToStr(n)

\* all sequences over S of length at most n
RECURSIVE SeqsUpTo(_, _)
SeqsUpTo(S, n) ==
    IF n = 0 THEN {<<>>}
    ELSE LET shorter == SeqsUpTo(S, n - 1) IN
         shorter \cup {Append(s, x) : s \in {t \in shorter : Len(t) = n - 1}, x \in S}

-----------------------------------------------------------------------------
(* Python values held by the config dict.  Every value is a record of the  *)
(* same shape; t names the Python type and the field of that type holds    *)
(* the value.  A float is kept as the exact decimal neg * m * 10^e, or inf  *)
(* or nan.                                                                 *)

NoFloat == [k |-> "none", neg |-> FALSE, m |-> 0, e |-> 0]

PyInt(n) == [t |-> "int", i |-> n, b |-> FALSE, f |-> NoFloat, s |-> <<>>]

PyBool(x) == [t |-> "bool", i |-> 0, b |-> x, f |-> NoFloat, s |-> <<>>]

PyFloat(x) == [t |-> "float", i |-> 0, b |-> FALSE, f |-> x, s |-> <<>>]

PyStr(x) == [t |-> "str", i |-> 0, b |-> FALSE, f |-> NoFloat, s |-> x]

\* m * 10^e with the trailing zeros of m moved into e
RECURSIVE Normalized(_, _, _)
Normalized(neg, m, e) ==
    IF m = 0 THEN [k |-> "fin", neg |-> neg, m |-> 0, e |-> 0]
    ELSE IF m % 10 = 0 THEN Normalized(neg, m \div 10, e + 1)
    ELSE [k |-> "fin", neg |-> neg, m |-> m, e |-> e]

S_inf == <<"i", "n", "f">>
S_infinity == <<"i", "n", "f", "i", "n", "i", "t", "y">>
S_nan == <<"n", "a", "n">>
S_true == <<"t", "r", "u", "e">>
S_false == <<"f", "a", "l", "s", "e">>

\* [sign] digits: the exponent of a float literal; "bad" when malformed
SignedDigits(s) ==
    LET signed == s # <<>> /\ Head(s) \in {"+", "-"}
        body == IF signed THEN Tail(s) ELSE s
    IN IF ~AllDecimal(body) THEN [ok |-> FALSE, n |-> 0]
       ELSE [ok |-> TRUE,
             n |-> IF signed /\ Head(s) = "-" THEN 0 - DecimalValue(body)
                   ELSE DecimalValue(body)]

\* float(s): the float, or NoFloat where float() raises ValueError.
\* Grammar: [sign] (inf | infinity | nan | digits [. [digits]] [exp] | . digits [exp]),
\* letters in any case, surrounding whitespace ignored.
ParseFloat(s0) ==
    LET s == Lower(Strip(s0))
        signed == s # <<>> /\ Head(s) \in {"+", "-"}
        neg == signed /\ Head(s) = "-"
        body == IF signed THEN Tail(s) ELSE s
        ePos == Find(body, "e")
        mant == IF ePos = 0 THEN body ELSE SubSeq(body, 1, ePos - 1)
        expo == IF ePos = 0 THEN [ok |-> TRUE, n |-> 0]
                ELSE SignedDigits(SubSeq(body, ePos + 1, Len(body)))
        dot == Find(mant, ".")
        ip == IF dot = 0 THEN mant ELSE SubSeq(mant, 1, dot - 1)
        fp == IF dot = 0 THEN <<>> ELSE SubSeq(mant, dot + 1, Len(mant))
        mantOk == /\ ip \o fp # <<>>
                  /\ ip = <<>> \/ AllDecimal(ip)
                  /\ fp = <<>> \/ AllDecimal(fp)
    IN IF body \in {S_inf, S_infinity} THEN [k |-> "inf", neg |-> neg, m |-> 0, e |-> 0]
       ELSE IF body = S_nan THEN [k |-> "nan", neg |-> neg, m |-> 0, e |-> 0]
       ELSE IF mantOk /\ expo.ok
            THEN Normalized(neg, DecimalValue(ip \o fp), expo.n - Len(fp))
       ELSE NoFloat

\* int(s) for a value that passed isdigit(): ValueError unless all decimal
IntOfDigits(value) ==
    IF AllDecimal(value) THEN [raises |-> "none", val |-> PyInt(DecimalValue(value))]
    ELSE [raises |-> "ValueError", val |-> PyStr(value)]

\* config_reader.py lines 35-45: the value stored for a stripped value string
CoerceValue(value) ==
    IF IsDigit(value) THEN IntOfDigits(value)
    ELSE IF Lower(value) \in {S_true, S_false}
         THEN [raises |-> "none", val |-> PyBool(Lower(value) = S_true)]
    ELSE IF ParseFloat(value) # NoFloat
         THEN [raises |-> "none", val |-> PyFloat(ParseFloat(value))]
    ELSE [raises |-> "none", val |-> PyStr(value)]

EmptyDict == [k \in {} |-> PyInt(0)]

SetItem(d, k, v) == [x \in DOMAIN d \cup {k} |-> IF x = k THEN v ELSE d[x]]

\* an update that keeps a's value on a key of both
DictUpdateKeepFirst(a, b) ==
    [x \in DOMAIN a \cup DOMAIN b |-> IF x \in DOMAIN a THEN a[x] ELSE b[x]]

\* a.update(b)
DictUpdate(a, b) == [x \in DOMAIN a \cup DOMAIN b |-> IF x \in DOMAIN b THEN b[x] ELSE a[x]]

-----------------------------------------------------------------------------
(* bin/utils/common.py output_progress, bin/utils/ui_helpers.py            *)
(* parse_progress_line                                                     *)

MaxItemLen == 3     \* characters of current_item

S_PROGRESS == <<"P", "R", "O", "G", "R", "E", "S", "S", "|">>

\* common.py line 27: the text print() writes, the newline it appends included
OutputProgress(successful, failures, processed, total, current_item) ==
    S_PROGRESS \o IntToStr(successful) \o <<"|">> \o IntToStr(failures) \o <<"|">>
        \o IntToStr(processed) \o <<"|">> \o IntToStr(total) \o <<"|">>
        \o current_item \o <<"\n">>

\* int(s) for a str: surrounding whitespace ignored, an optional sign, decimal
\* digits with single underscores between them; anything else is ValueError
ParseInt(s0) ==
    LET s == Strip(s0)
        signed == s # <<>> /\ Head(s) \in {"+", "-"}
        body == IF signed THEN Tail(s) ELSE s
        groups == Split(body, "_", 0 - 1)
        ok == \A i \in 1..Len(groups) : AllDecimal(groups[i])
        n == DecimalValue(Join(groups, <<>>))
    IN IF ok THEN [raises |-> "none", n |-> IF signed /\ Head(s) = "-" THEN 0 - n ELSE n]
       ELSE [raises |-> "ValueError", n |-> 0]

NoProgress ==
    [none |-> TRUE, successful |-> 0, failures |-> 0, processed |-> 0, total |-> 0,
     current_item |-> <<>>]

\* the remainder of the line cut at every "|"
ProgressPartsSplitAll(line) == Split(SubSeq(line, 10, Len(line)), "|", 0 - 1)

\* ui_helpers.py line 223: parts = line[9:].split("|", 4)
ProgressParts(line) == Split(SubSeq(line, 10, Len(line)), "|", 4)

\* ui_helpers.py lines 221-233
ParseProgressLine(line) ==
    IF ~StartsWith(line, S_PROGRESS) THEN NoProgress
    ELSE LET parts == ProgressParts(line) IN
         IF Len(parts) # 5 THEN NoProgress
         ELSE IF \E i \in 1..4 : ParseInt(parts[i]).raises # "none" THEN NoProgress
         ELSE [none |-> FALSE,
               successful |-> ParseInt(parts[1]).n,
               failures |-> ParseInt(parts[2]).n,
               processed |-> ParseInt(parts[3]).n,
               total |-> ParseInt(parts[4]).n,
               current_item |-> Strip(parts[5])]

\* a try that catches IndexError only
ProgressHandlersIndexOnly == {"IndexError"}

\* ui_helpers.py line 231: except (ValueError, IndexError)
ProgressHandlers == {"ValueError", "IndexError"}

\* ui_helpers.py lines 221-233: the exception that leaves parse_progress_line:
\* the first int() that fails raises inside the try
ParseProgressRaises(line) ==
    IF ~StartsWith(line, S_PROGRESS) THEN "none"
    ELSE LET parts == ProgressParts(line) IN
         IF Len(parts) # 5 THEN "none"
         ELSE LET bad == {i \in 1..4 : ParseInt(parts[i]).raises # "none"} IN
              IF bad = {} THEN "none"
              ELSE LET exc == ParseInt(parts[CHOOSE i \in bad : \A j \in bad : i <= j]).raises
                   IN IF exc \in ProgressHandlers THEN "none" ELSE exc

\* a script calls output_progress
OutputProgressCall ==
    /\ pg_pc = "args"
    /\ pg_line' = OutputProgress(pg_args.successful, pg_args.failures, pg_args.processed,
                                 pg_args.total, pg_args.current_item)
    /\ pg_pc' = "printed"
    /\ UNCHANGED <<pg_args, pg_how, pg_parsed, pg_raised>>
    /\ UNCHANGED notPg

\* parse_progress_line applied to the line as readline() returned it
ParseRawLine ==
    /\ pg_pc = "printed"
    /\ pg_parsed' = ParseProgressLine(pg_line)
    /\ pg_raised' = ParseProgressRaises(pg_line)
    /\ pg_how' = "raw"
    /\ pg_pc' = "parsed"
    /\ UNCHANGED <<pg_args, pg_line>>
    /\ UNCHANGED notPg

\* gui.py lines 501 and 1160: parse_progress_line(line.strip())
ParseStrippedLine ==
    /\ pg_pc = "printed"
    /\ pg_parsed' = ParseProgressLine(Strip(pg_line))
    /\ pg_raised' = ParseProgressRaises(Strip(pg_line))
    /\ pg_how' = "stripped"
    /\ pg_pc' = "parsed"
    /\ UNCHANGED <<pg_args, pg_line>>
    /\ UNCHANGED notPg

ProgressNext ==
    \/ OutputProgressCall
    \/ ParseRawLine
    \/ ParseStrippedLine

ParseNext ==
    \/ ParseRawLine
    \/ ParseStrippedLine

ProgressInts == {0 - 5, 0, 12}

ItemChars == {"a", "|", " ", "7"}

ProgressIdle ==
    /\ pg_pc = "off"
    /\ pg_args = NoProgress
    /\ pg_line = <<>>
    /\ pg_how = "none"
    /\ pg_parsed = NoProgress
    /\ pg_raised = "none"

ProgressInit ==
    /\ pg_pc = "args"
    /\ pg_args \in [none : {FALSE}, successful : ProgressInts, failures : ProgressInts,
                    processed : ProgressInts, total : ProgressInts,
                    current_item : SeqsUpTo(ItemChars, MaxItemLen)]
    /\ pg_line = <<>>
    /\ pg_how = "none"
    /\ pg_parsed = NoProgress
    /\ pg_raised = "none"

MaxFields == 5      \* "|"-separated fields after the prefix of a line

\* the lines handed to parse_progress_line: a prefix that is, or only looks
\* like, "PROGRESS|", then fields that are integers for int() or are not
LinePrefixes == { S_PROGRESS, <<"P", "R", "O", "G", "|">>, <<" ">> \o S_PROGRESS, <<>> }
LineFields == { <<"7">>, <<" ", "-", "2">>, <<"x">>, <<>> }

ParseInit ==
    /\ pg_pc = "printed"
    /\ pg_args = NoProgress
    /\ \E prefix \in LinePrefixes, fields \in SeqsUpTo(LineFields, MaxFields) :
          pg_line = prefix \o Join(fields, <<"|">>)
    /\ pg_how = "none"
    /\ pg_parsed = NoProgress
    /\ pg_raised = "none"

-----------------------------------------------------------------------------
(* posixpath, on character sequences                                       *)

Sep == <<"/">>
DotDot == <<".", ".">>

IsAbs(path) == StartsWith(path, Sep)

\* os.path.join(a, b)
PathJoin(a, b) ==
    IF IsAbs(b) THEN b
    ELSE IF a = <<>> \/ EndsWith(a, Sep) THEN a \o b
    ELSE a \o Sep \o b

\* the loop of posixpath.normpath over the components
RECURSIVE NormComps(_, _, _)
NormComps(comps, new, rooted) ==
    IF comps = <<>> THEN new
    ELSE LET c == Head(comps) IN
         IF c = <<>> \/ c = <<".">> THEN NormComps(Tail(comps), new, rooted)
         ELSE IF \/ c # DotDot
                 \/ (~rooted /\ new = <<>>)
                 \/ (new # <<>> /\ new[Len(new)] = DotDot)
              THEN NormComps(Tail(comps), Append(new, c), rooted)
         ELSE IF new # <<>> THEN NormComps(Tail(comps), SubSeq(new, 1, Len(new) - 1), rooted)
         ELSE NormComps(Tail(comps), new, rooted)

\* os.path.normpath (paths with one leading slash at most)
NormPath(path) ==
    LET joined == Join(NormComps(Split(path, "/", 0 - 1), <<>>, IsAbs(path)), Sep)
        full == IF IsAbs(path) THEN Sep \o joined ELSE joined
    IN IF full = <<>> THEN <<".">> ELSE full

\* the non-empty components of a path
Components(path) == SelectSeq(Split(path, "/", 0 - 1), LAMBDA c : c # <<>>)

RECURSIVE CommonPrefixLen(_, _)
CommonPrefixLen(a, b) ==
    IF a = <<>> \/ b = <<>> \/ Head(a) # Head(b) THEN 0
    ELSE 1 + CommonPrefixLen(Tail(a), Tail(b))

\* os.path.relpath(path, start) for absolute path and start
RelPath(path, start) ==
    LET startList == Components(NormPath(start))
        pathList == Components(NormPath(path))
        i == CommonPrefixLen(startList, pathList)
        relList == [k \in 1..(Len(startList) - i) |-> DotDot]
                       \o SubSeq(pathList, i + 1, Len(pathList))
    IN IF relList = <<>> THEN <<".">> ELSE Join(relList, Sep)

\* the index of the last "/" of path, or 0
RECURSIVE RFindSep(_, _)
RFindSep(path, i) == IF i = 0 \/ path[i] = "/" THEN i ELSE RFindSep(path, i - 1)

Basename(path) == SubSeq(path, RFindSep(path, Len(path)) + 1, Len(path))

RECURSIVE RStripSep(_)
RStripSep(path) ==
    IF path # <<>> /\ path[Len(path)] = "/" THEN RStripSep(SubSeq(path, 1, Len(path) - 1))
    ELSE path

Dirname(path) ==
    LET head == SubSeq(path, 1, RFindSep(path, Len(path))) IN
    IF head # <<>> /\ RStripSep(head) # <<>> THEN RStripSep(head) ELSE head

\* the code point order of the characters the paths are made of
\* the characters from " " (32) to "~" (126) in the order of their code points
\* (the double quote, 34, and the backtick, 96, are written as words)
PrintableChars ==
    <<" ", "!", "<quote>", "#", "$", "%", "&", "'", "(", ")", "*", "+", ",", "-", ".", "/">>
        \o <<"0", "1", "2", "3", "4", "5", "6", "7", "8", "9", ":", ";", "<", "=", ">", "?", "@">>
        \o UpperLetters
        \o <<"[", "\\", "]", "^", "_", "<backtick>">>
        \o LowerLetters
        \o <<"{", "|", "}", "~">>

CharCode(c) == 31 + IndexIn(PrintableChars, c)

\* a < b for Python strs
RECURSIVE StrLess(_, _)
StrLess(a, b) ==
    IF b = <<>> THEN FALSE
    ELSE IF a = <<>> THEN TRUE
    ELSE IF Head(a) # Head(b) THEN CharCode(Head(a)) < CharCode(Head(b))
    ELSE StrLess(Tail(a), Tail(b))

\* sorted(S) for a set of strs
RECURSIVE Sorted(_)
Sorted(S) ==
    IF S = {} THEN <<>>
    ELSE LET least == CHOOSE x \in S : \A y \in S \ {x} : StrLess(x, y)
         IN <<least>> \o Sorted(S \ {least})

-----------------------------------------------------------------------------
(* bin/upload_to_epaper.py                                                 *)

MaxArgs == 2        \* file arguments on the command line

E_epub == <<".", "e", "p", "u", "b">>
E_xtc == <<".", "x", "t", "c">>
E_xtg == <<".", "x", "t", "g">>
E_xth == <<".", "x", "t", "h">>
E_xtch == <<".", "x", "t", "c", "h">>

\* line 26
SUPPORTED_EXTENSIONS == {E_epub, E_xtc, E_xtg, E_xth, E_xtch}

\* file.lower().endswith(SUPPORTED_EXTENSIONS)
IsSupported(path) == \E ext \in SUPPORTED_EXTENSIONS : EndsWith(Lower(path), ext)

\* os.path.join(repo_root, config["TEXTS_DIR"]) and the working directory
TextsDir == <<"/", "r", "/", "t">>
Cwd == <<"/", "r">>

KeepFilesFlag == <<"-", "-", "k", "e", "e", "p", "-", "f", "i", "l", "e", "s">>

\* the local files: in texts/, in a subdirectory of it, in a sibling directory
\* whose name starts with "t", outside the repository, and one that is no e-book
F_a == TextsDir \o <<"/", "a">> \o E_epub
F_b == TextsDir \o <<"/", "h", "/", "s", "/", "b">> \o E_xtc
F_c == <<"/", "r", "/", "t", "2", "/", "c">> \o E_epub
F_d == <<"/", "o", "/", "d">> \o E_epub
F_n == TextsDir \o <<"/", "n", ".", "t", "x", "t">>

AllFiles == {F_a, F_b, F_c, F_d, F_n}

\* what may be typed as a file argument
ArgPool ==
    { <<"a">> \o E_epub,
      <<"h", "/", "s", "/", "b">> \o E_xtc,
      F_c,
      F_d,
      <<".", ".", "/", "t", "2", "/", "c">> \o E_epub,
      <<"n", ".", "t", "x", "t">>,
      <<"z">> \o E_epub }

\* os.path.exists: the file system resolves "." and ".."; a directory exists
\* when a file lies below it
FileExists(fs, path) == NormPath(PathJoin(Cwd, path)) \in fs

DirExists(fs, dir) ==
    \E f \in fs : /\ Len(Components(f)) > Len(Components(dir))
                  /\ SubSeq(Components(f), 1, Len(Components(dir))) = Components(dir)

\* lines 162-176: the file_path of one argument, or <<>> with the warning
ArgFilePath(fs, arg) ==
    LET inTexts == PathJoin(TextsDir, arg)
        file_path == IF IsAbs(arg) THEN arg
                     ELSE IF FileExists(fs, inTexts) THEN inTexts
                     ELSE NormPath(PathJoin(Cwd, arg))
    IN IF FileExists(fs, file_path) /\ IsSupported(file_path) THEN file_path ELSE <<>>

RECURSIVE ArgFiles(_, _)
ArgFiles(fs, args) ==
    IF args = <<>> THEN <<>>
    ELSE LET fp == ArgFilePath(fs, Head(args)) IN
         (IF fp = <<>> THEN <<>> ELSE <<fp>>) \o ArgFiles(fs, Tail(args))

\* lines 29-39: the orders os.walk may list the e-books below directory in
\* (top-down: the files of a directory before those of its subdirectories)
WalkOrders(fs, directory) ==
    LET found == {f \in fs : /\ StartsWith(f, directory \o Sep)
                             /\ IsSupported(Basename(f))}
    IN {order \in SeqsUpTo(found, Cardinality(found)) :
          /\ Len(order) = Cardinality(found)
          /\ \A i, j \in 1..Len(order) :
                /\ (i # j => order[i] # order[j])
                /\ (StartsWith(Dirname(order[j]), Dirname(order[i]) \o Sep) => i < j)}

\* lines 189-192
RelPathOf(file_path) ==
    IF StartsWith(file_path, TextsDir) THEN RelPath(file_path, TextsDir)
    ELSE Basename(file_path)

FileInfo(files) == [i \in 1..Len(files) |-> <<files[i], RelPathOf(files[i])>>]

\* lines 208-215: the cumulative paths of the components of dir_path
FolderPrefixes(dir_path) ==
    LET parts == Split(dir_path, "/", 0 - 1) IN
    {Join(SubSeq(parts, 1, n), Sep) : n \in 1..Len(parts)}

\* only the directory of each file, without the directories above it
FoldersToCreateLeafOnly(file_info) ==
    {Dirname(file_info[i][2]) : i \in {j \in 1..Len(file_info) :
                                           Dirname(file_info[j][2]) # <<>>}}

\* lines 202-215
FoldersToCreate(file_info) ==
    UNION {IF Dirname(file_info[i][2]) = <<>> THEN {}
           ELSE FolderPrefixes(Dirname(file_info[i][2])) : i \in 1..Len(file_info)}

\* lines 53-57, 63: the path field create_folder sends
FolderRequestPath(folder_path) ==
    LET lead == IF StartsWith(folder_path, Sep) THEN folder_path ELSE Sep \o folder_path
    IN IF EndsWith(lead, Sep) THEN lead ELSE lead \o Sep

\* line 92: target_path = "/" + relative_path.replace("\\", "/")
TargetPath(relative_path) ==
    Sep \o [i \in 1..Len(relative_path) |->
               IF relative_path[i] = "\\" THEN "/" ELSE relative_path[i]]

\* what a request to the device may end in: an HTTP status, or an exception
RequestOutcomes == {"200", "500", "exception"}

\* any HTTP response taken for a success
AnyResponseIsSuccess(outcome) == outcome # "exception"

\* lines 66-74 and 112-125: True exactly on status 200
RequestSucceeded(outcome) == outcome = "200"

\* the exception a request ends in
ExceptionOf(outcome) == IF outcome = "exception" THEN "RequestException" ELSE "none"

\* an except clause that catches its own class only
IsInstanceExact(exc, cls) == cls = exc

\* except clauses: every modelled exception is an Exception
IsInstance(exc, cls) == cls = "Exception" \/ cls = exc

Caught(exc, handlers) == \E i \in 1..Len(handlers) : IsInstance(exc, handlers[i])

\* lines 42-74: the request create_folder sends and what it returns
create_folder(folder_path, outcome) ==
    LET exc == ExceptionOf(outcome)
        raised == exc # "none" /\ ~Caught(exc, <<"Exception">>)
    IN [fn |-> "create_folder", outcome |-> outcome,
        request |-> <<[method |-> "PUT", path |-> FolderRequestPath(folder_path),
                       file |-> <<>>, outcome |-> outcome,
                       returned |-> RequestSucceeded(outcome)]>>,
        returned |-> exc = "none" /\ RequestSucceeded(outcome),
        raised |-> raised]

\* lines 77-125: upload_file; open() raises when the file is missing and then
\* no request is sent
upload_file(fs, file_path, relative_path, outcome) ==
    LET opened == FileExists(fs, file_path)
        exc == IF ~opened THEN "FileNotFoundError" ELSE ExceptionOf(outcome)
        raised == exc # "none" /\ ~Caught(exc, <<"RequestException", "Exception">>)
        ok == exc = "none" /\ RequestSucceeded(outcome)
    IN [fn |-> "upload_file", outcome |-> IF opened THEN outcome ELSE "no file",
        request |-> IF opened
                    THEN <<[method |-> "POST", path |-> TargetPath(relative_path),
                            file |-> file_path, outcome |-> outcome, returned |-> ok]>>
                    ELSE <<>>,
        returned |-> ok,
        raised |-> raised]

\* a PROGRESS line whose processed field counts the successes only
ProgressRecordOfSuccesses(successful, failures, processed, total, what, path) ==
    [successful |-> successful, failures |-> failures, processed |-> successful,
     total |-> total, what |-> what, path |-> path]

\* utils/common.py output_progress as main calls it: the five fields, with the
\* place of the call and the path it names
ProgressRecord(successful, failures, processed, total, what, path) ==
    [successful |-> successful, failures |-> failures, processed |-> processed,
     total |-> total, what |-> what, path |-> path]

UploadDone ==
    /\ up_pc' = "done"
    /\ UNCHANGED <<up_fs0, up_fs, up_argv, up_keep_files, up_file_info, up_folders, up_i,
                   up_success, up_fail, up_uploaded, up_deleted, up_requests, up_progress,
                   up_calls>>

\* lines 134-223: arguments, the list of files, file_info, folders_to_create and
\* the first PROGRESS line; main returns when texts/ or the files are missing
MainPrepare ==
    /\ up_pc = "start"
    /\ LET keep == \E i \in 1..Len(up_argv) : up_argv[i] = KeepFilesFlag
           first == CHOOSE i \in 1..Len(up_argv) :
                       /\ up_argv[i] = KeepFilesFlag
                       /\ \A j \in 1..(i - 1) : up_argv[j] # KeepFilesFlag
           args == IF keep THEN SubSeq(up_argv, 1, first - 1)
                                    \o SubSeq(up_argv, first + 1, Len(up_argv))
                   ELSE up_argv
       IN IF ~DirExists(up_fs, TextsDir) THEN UploadDone
          ELSE \E ebook_files \in (IF args # <<>> THEN {ArgFiles(up_fs, args)}
                                   ELSE WalkOrders(up_fs, TextsDir)) :
                 IF ebook_files = <<>> THEN UploadDone
                 ELSE /\ up_keep_files' = keep
                      /\ up_file_info' = FileInfo(ebook_files)
                      /\ up_folders' = Sorted(FoldersToCreate(up_file_info'))
                      /\ up_progress' = <<ProgressRecord(0, 0, 0, Len(ebook_files),
                                                         "start", <<>>)>>
                      /\ up_pc' = IF up_folders' # <<>> THEN "folders" ELSE "uploads"
                      /\ up_i' = 1
                      /\ UNCHANGED <<up_fs0, up_fs, up_argv, up_success, up_fail,
                                     up_uploaded, up_deleted, up_requests, up_calls>>
    /\ UNCHANGED notUp

\* lines 230-239: one iteration of the folder loop; the result of create_folder
\* only chooses what is printed
CreateFolder ==
    /\ up_pc = "folders"
    /\ \E outcome \in RequestOutcomes :
          LET call == create_folder(up_folders[up_i], outcome) IN
          /\ ~call.raised
          /\ up_requests' = up_requests \o call.request
          /\ up_calls' = Append(up_calls, call)
    /\ up_progress' = Append(up_progress,
           ProgressRecord(up_success, up_fail, 0, Len(up_file_info), "folder",
                          up_folders[up_i]))
    /\ IF up_i < Len(up_folders)
       THEN up_i' = up_i + 1 /\ up_pc' = "folders"
       ELSE up_i' = 1 /\ up_pc' = "uploads"
    /\ UNCHANGED <<up_fs0, up_fs, up_argv, up_keep_files, up_file_info, up_folders,
                   up_success, up_fail, up_uploaded, up_deleted>>
    /\ UNCHANGED notUp

\* lines 253-265 with upload_file (lines 89-125): one iteration of the upload
\* loop; open() fails when the file is gone, and then nothing is sent
UploadFile ==
    /\ up_pc = "uploads"
    /\ LET file_path == up_file_info[up_i][1]
           rel_path == up_file_info[up_i][2]
       IN /\ up_progress' = Append(up_progress,
                 ProgressRecord(up_success, up_fail, up_i - 1, Len(up_file_info),
                                "upload", rel_path))
          /\ \E outcome \in RequestOutcomes :
               LET call == upload_file(up_fs, file_path, rel_path, outcome)
                   ok == call.returned
               IN /\ ~call.raised
                  /\ up_requests' = up_requests \o call.request
                  /\ up_calls' = Append(up_calls, call)
                  /\ up_success' = IF ok THEN up_success + 1 ELSE up_success
                  /\ up_fail' = IF ok THEN up_fail ELSE up_fail + 1
                  /\ up_uploaded' = IF ok THEN Append(up_uploaded, <<file_path, rel_path>>)
                                    ELSE up_uploaded
    /\ IF up_i < Len(up_file_info)
       THEN up_i' = up_i + 1 /\ up_pc' = "uploads"
       ELSE up_i' = 1 /\ up_pc' = "final"
    /\ UNCHANGED <<up_fs0, up_fs, up_argv, up_keep_files, up_file_info, up_folders,
                   up_deleted>>
    /\ UNCHANGED notUp

\* lines 268-272: the final PROGRESS line; the clean-up is entered only without
\* --keep-files and with an uploaded file
FinalProgress ==
    /\ up_pc = "final"
    /\ up_progress' = Append(up_progress,
           ProgressRecord(up_success, up_fail, up_success + up_fail, Len(up_file_info),
                          "final", <<>>))
    /\ up_pc' = IF ~up_keep_files /\ up_uploaded # <<>> THEN "cleanup" ELSE "done"
    /\ UNCHANGED <<up_fs0, up_fs, up_argv, up_keep_files, up_file_info, up_folders, up_i,
                   up_success, up_fail, up_uploaded, up_deleted, up_requests, up_calls>>
    /\ UNCHANGED notUp

\* lines 277-283: one iteration of the clean-up loop; os.remove may fail (the
\* file is gone already, or may not be removed), which is only printed
DeleteUploaded ==
    /\ up_pc = "cleanup"
    /\ LET target == NormPath(PathJoin(Cwd, up_uploaded[up_i][1])) IN
       \E removed \in {TRUE, FALSE} :
          /\ removed => target \in up_fs
          /\ up_fs' = IF removed THEN up_fs \ {target} ELSE up_fs
          /\ up_deleted' = IF removed THEN up_deleted + 1 ELSE up_deleted
    /\ IF up_i < Len(up_uploaded)
       THEN up_i' = up_i + 1 /\ up_pc' = "cleanup"
       ELSE up_i' = 1 /\ up_pc' = "done"
    /\ UNCHANGED <<up_fs0, up_argv, up_keep_files, up_file_info, up_folders, up_success,
                   up_fail, up_uploaded, up_requests, up_progress,
                   up_calls>>
    /\ UNCHANGED notUp

UploadNext ==
    \/ MainPrepare
    \/ CreateFolder
    \/ UploadFile
    \/ FinalProgress
    \/ DeleteUploaded

UploadStart(pc, fs, argv) ==
    /\ up_pc = pc
    /\ up_fs0 = fs
    /\ up_fs = fs
    /\ up_argv = argv
    /\ up_keep_files = FALSE
    /\ up_file_info = <<>>
    /\ up_folders = <<>>
    /\ up_i = 1
    /\ up_success = 0
    /\ up_fail = 0
    /\ up_uploaded = <<>>
    /\ up_deleted = 0
    /\ up_requests = <<>>
    /\ up_progress = <<>>
    /\ up_calls = <<>>

UploadIdle == UploadStart("off", {}, <<>>)

\* main starts with or without --keep-files before the file arguments, with the
\* local files there or with no texts/ directory
UploadInit ==
    \E args \in SeqsUpTo(ArgPool, MaxArgs), flag \in {<<>>, <<KeepFilesFlag>>},
       fs \in {AllFiles, {F_c, F_d}} :
        UploadStart("start", fs, flag \o args)

MaxCalls == 2       \* direct calls of the two request helpers

\* the folder paths and the file paths the helpers are called with
FolderPaths == { <<"h">>, <<"/", "h", "/">>, <<"h", "/", "s">>, <<"/", "d">> }
HelperFiles == { F_a, TextsDir \o <<"/", "z">> \o E_epub }

\* lines 42-74: create_folder called on its own, as the tests do
CallCreateFolder ==
    /\ up_pc = "helpers"
    /\ Len(up_calls) < MaxCalls
    /\ \E folder_path \in FolderPaths, outcome \in RequestOutcomes :
          LET call == create_folder(folder_path, outcome) IN
          /\ up_calls' = Append(up_calls, call)
          /\ up_requests' = up_requests \o call.request
    /\ UNCHANGED <<up_pc, up_fs0, up_fs, up_argv, up_keep_files, up_file_info, up_folders,
                   up_i, up_success, up_fail, up_uploaded, up_deleted, up_progress>>
    /\ UNCHANGED notUp

\* lines 77-125: upload_file called on its own
CallUploadFile ==
    /\ up_pc = "helpers"
    /\ Len(up_calls) < MaxCalls
    /\ \E file_path \in HelperFiles, outcome \in RequestOutcomes :
          LET call == upload_file(up_fs, file_path, RelPathOf(file_path), outcome) IN
          /\ up_calls' = Append(up_calls, call)
          /\ up_requests' = up_requests \o call.request
    /\ UNCHANGED <<up_pc, up_fs0, up_fs, up_argv, up_keep_files, up_file_info, up_folders,
                   up_i, up_success, up_fail, up_uploaded, up_deleted, up_progress>>
    /\ UNCHANGED notUp

HelperNext ==
    \/ CallCreateFolder
    \/ CallUploadFile

HelperInit == UploadStart("helpers", AllFiles, <<>>)

-----------------------------------------------------------------------------
(* bin/converters/convert_epub_to_xtc.py                                   *)

PollTimeout == 2    \* config XTC_CONVERSION_TIMEOUT, in polls of one second

\* lines 99-104 and 142: the output formats, in the order they are looked for
OutputExts == <<E_xtc, E_xtg, E_xth, E_xtch>>

E_crdownload == <<".", "c", "r", "d", "o", "w", "n", "l", "o", "a", "d">>

\* the names the converter site may give the file it exports
DownloadNames ==
    { <<"b">> \o E_xtc, <<"b">> \o E_xth, <<"b", ".", "1">> \o E_xtch, <<"o", "u", "t">> \o E_xtg }

\* os.path.splitext(name)[1]: from the last "." that follows a character other
\* than ".", else empty
RECURSIVE RFindDot(_, _)
RFindDot(name, i) == IF i = 0 \/ name[i] = "." THEN i ELSE RFindDot(name, i - 1)

SplitExt(path) ==
    LET name == Basename(path)
        dot == RFindDot(name, Len(name))
    IN IF dot > 0 /\ \E i \in 1..(dot - 1) : name[i] # "."
       THEN SubSeq(name, dot, Len(name)) ELSE <<>>

\* the target always named .xtc
OutputTargetXtc(epub_path, xtc_file) == SubSeq(epub_path, 1, Len(epub_path) - 5) \o E_xtc

\* lines 364-367: output_target = epub_path[:-5] + output_ext
OutputTarget(epub_path, xtc_file) ==
    SubSeq(epub_path, 1, Len(epub_path) - 5) \o SplitExt(xtc_file)

\* a check that looks for <base>.xtc only
ConvertedExtsXtcOnly(fs, epub_path) ==
    SelectSeq(<<E_xtc>>,
              LAMBDA ext : (SubSeq(epub_path, 1, Len(epub_path) - 5) \o ext) \in fs)

\* lines 141-143: the first extension of the list a converted file exists with
ConvertedExts(fs, epub_path) ==
    SelectSeq(OutputExts,
              LAMBDA ext : (SubSeq(epub_path, 1, Len(epub_path) - 5) \o ext) \in fs)

\* lines 96-107: what one poll of the download directory finds, <<>> for nothing
PollFinds(dl) ==
    LET found == SelectSeq(OutputExts, LAMBDA ext : \E f \in dl : EndsWith(f, ext)) IN
    IF (\E f \in dl : EndsWith(f, E_crdownload)) \/ found = <<>> THEN {<<>>}
    ELSE {f \in dl : EndsWith(f, found[1])}

Result(success, error) == [success |-> success, error |-> error]

\* line 94: the condition of wait_for_download's loop, tested after the last turn
KeepsPollingOnceMore(seconds, timeout) == seconds <= timeout

\* line 94: while seconds < timeout
KeepsPolling(seconds, timeout) == seconds < timeout

cvArgs == <<cv_fs0, cv_epub_path, cv_keep_epub>>

cvFrame == <<cvArgs, cv_polls, cv_counts>>

\* lines 125-159: the checks before the try; the already-converted skip removes
\* the EPUB unless keep_epub; else the temporary directory is made
ConvertStart ==
    /\ cv_pc = "call"
    /\ IF cv_epub_path \notin cv_fs
       THEN /\ cv_result' = Result(FALSE, "File not found")
            /\ cv_pc' = "returned"
            /\ UNCHANGED <<cv_fs, cv_tmp>>
       ELSE IF ~EndsWith(Lower(cv_epub_path), E_epub)
       THEN /\ cv_result' = Result(FALSE, "Not an EPUB file")
            /\ cv_pc' = "returned"
            /\ UNCHANGED <<cv_fs, cv_tmp>>
       ELSE IF ConvertedExts(cv_fs, cv_epub_path) # <<>>
       THEN /\ cv_result' = Result(TRUE, "already_converted")
            /\ cv_pc' = "returned"
            /\ \E removed \in {TRUE, FALSE} :
                  cv_fs' = IF ~cv_keep_epub /\ removed THEN cv_fs \ {cv_epub_path} ELSE cv_fs
            /\ UNCHANGED cv_tmp
       ELSE /\ cv_tmp' = "exists"
            /\ cv_pc' = "setup"
            /\ UNCHANGED <<cv_fs, cv_result>>
    /\ UNCHANGED <<cvFrame, cv_dl, cv_driver, cv_seconds, cv_xtc_file>>
    /\ UNCHANGED notCv

\* lines 167-168 with setup_chrome_driver (lines 44-88): the driver starts, or
\* setup_chrome_driver calls sys.exit(1), or set_window_size raises
SetupDriver ==
    /\ cv_pc = "setup"
    /\ \E outcome \in {"started", "SystemExit", "exception"} :
          /\ cv_driver' = IF outcome = "SystemExit" THEN cv_driver ELSE "running"
          /\ cv_pc' = IF outcome = "started" THEN "drive" ELSE "finally"
          /\ cv_result' = IF outcome = "started" THEN cv_result
                          ELSE IF outcome = "SystemExit" THEN Result(FALSE, "SystemExit")
                          ELSE Result(FALSE, "exception")
    /\ UNCHANGED <<cvFrame, cv_fs, cv_tmp, cv_dl, cv_seconds, cv_xtc_file>>
    /\ UNCHANGED notCv

\* lines 170-344: the page is loaded, the EPUB sent, the settings applied and
\* the export button clicked; the two explicit failures and any exception return
DriveConverter ==
    /\ cv_pc = "drive"
    /\ \E outcome \in {"clicked", "EPUB did not load within timeout",
                       "Failed to click export button", "exception"} :
          IF outcome = "clicked"
          THEN /\ cv_pc' = "wait"
               /\ cv_seconds' = 0
               /\ UNCHANGED cv_result
          ELSE /\ cv_pc' = "finally"
               /\ cv_result' = Result(FALSE, outcome)
               /\ UNCHANGED cv_seconds
    /\ UNCHANGED <<cvFrame, cv_fs, cv_tmp, cv_dl, cv_driver, cv_xtc_file>>
    /\ UNCHANGED notCv

\* Chrome starts writing the exported file as <name>.crdownload
ChromeStartsDownload ==
    /\ cv_pc = "wait"
    /\ cv_dl = {}
    /\ \E name \in DownloadNames : cv_dl' = {name \o E_crdownload}
    /\ UNCHANGED <<cvFrame, cv_pc, cv_fs, cv_tmp, cv_driver, cv_seconds, cv_xtc_file,
                   cv_result>>
    /\ UNCHANGED notCv

\* Chrome renames the finished download to <name>
ChromeFinishesDownload ==
    /\ cv_pc = "wait"
    /\ \E f \in cv_dl :
          /\ EndsWith(f, E_crdownload)
          /\ cv_dl' = (cv_dl \ {f}) \cup {SubSeq(f, 1, Len(f) - Len(E_crdownload))}
    /\ UNCHANGED <<cvFrame, cv_pc, cv_fs, cv_tmp, cv_driver, cv_seconds, cv_xtc_file,
                   cv_result>>
    /\ UNCHANGED notCv

\* lines 91-111 and 349-357: one turn of wait_for_download's loop, or its end
PollDownload ==
    /\ cv_pc = "wait"
    /\ IF KeepsPolling(cv_seconds, PollTimeout)
       THEN \E found \in PollFinds(cv_dl) :
               /\ cv_polls' = Append(cv_polls, [dir |-> cv_dl, found |-> found])
               /\ IF found # <<>>
                  THEN /\ cv_xtc_file' = found
                       /\ cv_pc' = "remove"
                       /\ UNCHANGED <<cv_seconds, cv_result>>
                  ELSE /\ cv_seconds' = cv_seconds + 1
                       /\ UNCHANGED <<cv_pc, cv_xtc_file, cv_result>>
       ELSE /\ cv_result' = Result(FALSE, "Download timeout")
            /\ cv_pc' = "finally"
            /\ UNCHANGED <<cv_seconds, cv_xtc_file, cv_polls>>
    /\ UNCHANGED <<cvArgs, cv_counts, cv_fs, cv_tmp, cv_dl, cv_driver>>
    /\ UNCHANGED notCv

\* line 370: os.remove(epub_path); an OSError goes to the handler of line 381
RemoveEpub ==
    /\ cv_pc = "remove"
    /\ \E removed \in {TRUE, FALSE} :
          IF removed
          THEN /\ cv_fs' = cv_fs \ {cv_epub_path}
               /\ cv_pc' = "move"
               /\ UNCHANGED cv_result
          ELSE /\ cv_result' = Result(FALSE, "exception")
               /\ cv_pc' = "finally"
               /\ UNCHANGED cv_fs
    /\ UNCHANGED <<cvFrame, cv_tmp, cv_dl, cv_driver, cv_seconds, cv_xtc_file>>
    /\ UNCHANGED notCv

\* lines 373-379: os.rename(xtc_file, output_target) and the success return; an
\* OSError (the temporary directory is on another file system) goes to line 381
MoveOutput ==
    /\ cv_pc = "move"
    /\ \E moved \in {TRUE, FALSE} :
          IF moved
          THEN /\ cv_fs' = cv_fs \cup {OutputTarget(cv_epub_path, cv_xtc_file)}
               /\ cv_dl' = cv_dl \ {cv_xtc_file}
               /\ cv_result' = Result(TRUE, "none")
          ELSE /\ cv_result' = Result(FALSE, "exception")
               /\ UNCHANGED <<cv_fs, cv_dl>>
    /\ cv_pc' = "finally"
    /\ UNCHANGED <<cvFrame, cv_tmp, cv_driver, cv_seconds, cv_xtc_file>>
    /\ UNCHANGED notCv

\* lines 387-398: the driver quits, the temporary directory is emptied and
\* removed, and the pending return (or SystemExit) takes place
Finally ==
    /\ cv_pc = "finally"
    /\ cv_driver' = IF cv_driver = "running" THEN "quit" ELSE cv_driver
    /\ cv_dl' = {}
    /\ cv_tmp' = "removed"
    /\ cv_pc' = IF cv_result.error = "SystemExit" THEN "exited" ELSE "returned"
    /\ UNCHANGED <<cvFrame, cv_fs, cv_seconds, cv_xtc_file, cv_result>>
    /\ UNCHANGED notCv

NoCounts == [success_count |-> 0, skipped_count |-> 0, fail_count |-> 0]

\* main, lines 505-521: the result of the call is counted as converted, as
\* skipped or as failed
CountResult ==
    /\ cv_pc = "returned"
    /\ cv_counts' =
          IF cv_result.success
          THEN IF cv_result.error = "already_converted"
               THEN [cv_counts EXCEPT !.skipped_count = @ + 1]
               ELSE [cv_counts EXCEPT !.success_count = @ + 1]
          ELSE [cv_counts EXCEPT !.fail_count = @ + 1]
    /\ cv_pc' = "counted"
    /\ UNCHANGED <<cvArgs, cv_polls, cv_fs, cv_tmp, cv_dl, cv_driver, cv_seconds,
                   cv_xtc_file, cv_result>>
    /\ UNCHANGED notCv

ConvertNext ==
    \/ ConvertStart
    \/ SetupDriver
    \/ DriveConverter
    \/ ChromeStartsDownload
    \/ ChromeFinishesDownload
    \/ PollDownload
    \/ RemoveEpub
    \/ MoveOutput
    \/ Finally
    \/ CountResult

B_epub == <<"b">> \o E_epub
N_txt == <<"n", ".", "t", "x", "t">>

ConvertStartState(pc, fs, epub_path, keep_epub) ==
    /\ cv_pc = pc
    /\ cv_fs0 = fs
    /\ cv_fs = fs
    /\ cv_epub_path = epub_path
    /\ cv_keep_epub = keep_epub
    /\ cv_tmp = "none"
    /\ cv_dl = {}
    /\ cv_driver = "none"
    /\ cv_seconds = 0
    /\ cv_xtc_file = <<>>
    /\ cv_result = Result(FALSE, "not returned")
    /\ cv_polls = <<>>
    /\ cv_counts = NoCounts

ConvertIdle == ConvertStartState("off", {}, <<>>, FALSE)

\* the call, for a directory that may hold the EPUB, converted files of the same
\* base name and another file
ConvertInit ==
    \E fs \in SUBSET {B_epub, <<"b">> \o E_xtg, <<"b">> \o E_xtch, N_txt},
       epub_path \in {B_epub, N_txt}, keep_epub \in {TRUE, FALSE} :
        ConvertStartState("call", fs, epub_path, keep_epub)

-----------------------------------------------------------------------------
(* bin/scrapers/scrape_hcr_to_epub.py                                      *)

\* line 26: the month names of date_pattern, which are those of %B
MonthNames ==
    << <<"J", "a", "n", "u", "a", "r", "y">>,
       <<"F", "e", "b", "r", "u", "a", "r", "y">>,
       <<"M", "a", "r", "c", "h">>,
       <<"A", "p", "r", "i", "l">>,
       <<"M", "a", "y">>,
       <<"J", "u", "n", "e">>,
       <<"J", "u", "l", "y">>,
       <<"A", "u", "g", "u", "s", "t">>,
       <<"S", "e", "p", "t", "e", "m", "b", "e", "r">>,
       <<"O", "c", "t", "o", "b", "e", "r">>,
       <<"N", "o", "v", "e", "m", "b", "e", "r">>,
       <<"D", "e", "c", "e", "m", "b", "e", "r">> >>

\* the length of the longest prefix of s made of characters of set
RECURSIVE SpanOf(_, _)
SpanOf(s, set) == IF s # <<>> /\ Head(s) \in set THEN 1 + SpanOf(Tail(s), set) ELSE 0

\* the month number a title starts with the name of, or 0
MonthOf(title) ==
    IF \E m \in 1..12 : StartsWith(title, MonthNames[m])
    THEN CHOOSE m \in 1..12 : StartsWith(title, MonthNames[m])
    ELSE 0

\* a title read from the left as <month>\s*<digits>[,]\s*<digits><rest>: the
\* month number, the blanks, the day, the comma, the blanks, the year, the rest
RECURSIVE ScanTitle(_, _, _, _)
ScanTitle(title, pos, step, found) ==
    IF step = 1
    THEN LET month == MonthOf(title) IN
         ScanTitle(title, IF month = 0 THEN 1 ELSE Len(MonthNames[month]) + 1, 2, <<month>>)
    ELSE IF step \in {2, 5}
    THEN LET n == SpanOf(SubSeq(title, pos, Len(title)), Whitespace) IN
         ScanTitle(title, pos + n, step + 1, Append(found, n))
    ELSE IF step \in {3, 6}
    THEN LET n == SpanOf(SubSeq(title, pos, Len(title)), DecimalDigits) IN
         ScanTitle(title, pos + n, step + 1, Append(found, SubSeq(title, pos, pos + n - 1)))
    ELSE IF step = 4
    THEN LET comma == pos <= Len(title) /\ title[pos] = "," IN
         ScanTitle(title, IF comma THEN pos + 1 ELSE pos, 5, Append(found, comma))
    ELSE Append(found, SubSeq(title, pos, Len(title)))

PiecesRecord(found) ==
    [month |-> found[1], ws1 |-> found[2], day |-> found[3], comma |-> found[4],
     ws2 |-> found[5], year |-> found[6], rest |-> found[7]]

TitlePieces(title) == PiecesRecord(ScanTitle(title, 1, 1, <<>>))

\* lines 23-27: re.match of ^(January|...)\s+\d{1,2},\s+\d{4}$; "$" also matches
\* before a newline that ends the title
is_date_title(title) ==
    LET p == TitlePieces(title) IN
    /\ p.month > 0
    /\ p.ws1 >= 1
    /\ Len(p.day) \in {1, 2}
    /\ p.comma
    /\ p.ws2 >= 1
    /\ Len(p.year) = 4
    /\ p.rest \in {<<>>, <<"\n">>}

LeapYear(y) == (y % 4 = 0 /\ y % 100 # 0) \/ y % 400 = 0

DaysInMonth(y, m) ==
    IF m = 2 THEN (IF LeapYear(y) THEN 29 ELSE 28)
    ELSE IF m \in {4, 6, 9, 11} THEN 30 ELSE 31

\* line 34: datetime.strptime(title, "%B %d, %Y"): a blank of the format takes
\* \s+, %d takes 3[0-1]|[1-2]\d|0[1-9]|[1-9]| [1-9], %Y four digits, the whole
\* title must be used up, and the date must exist; ValueError otherwise
StrpTime(title) ==
    LET p == TitlePieces(title)
        d == DecimalValue(p.day)
        y == DecimalValue(p.year)
        fits == /\ p.month > 0
                /\ p.ws1 >= 1
                /\ Len(p.day) \in {1, 2}
                /\ d \in 1..31
                /\ p.comma
                /\ p.ws2 >= 1
                /\ Len(p.year) = 4
                /\ p.rest = <<>>
    IN IF fits /\ y >= 1 /\ d <= DaysInMonth(y, p.month)
       THEN [raises |-> "none", year |-> y, month |-> p.month, day |-> d]
       ELSE [raises |-> "ValueError", year |-> 0, month |-> 0, day |-> 0]

\* n in decimal, filled with zeros to width characters
RECURSIVE ZeroPad(_, _)
ZeroPad(digits, width) == IF Len(digits) >= width THEN digits ELSE ZeroPad(<<"0">> \o digits, width)

\* the date written day first
StrfTimeDayFirst(date, padded) ==
    ZeroPad(NatToStr(date.day), 2) \o <<"-">> \o ZeroPad(NatToStr(date.month), 2)
        \o <<"-">> \o NatToStr(date.year)

\* line 36: strftime("%Y-%m-%d"); the C library decides whether a year below
\* 1000 is filled to four digits
StrfTime(date, padded) ==
    (IF padded THEN ZeroPad(NatToStr(date.year), 4) ELSE NatToStr(date.year))
        \o <<"-">> \o ZeroPad(NatToStr(date.month), 2)
        \o <<"-">> \o ZeroPad(NatToStr(date.day), 2)

S_hcr == <<"h", "c", "r", "-">>

\* lines 38-41: the name made of the title itself
FallbackName(title) ==
    LET dashed == [i \in 1..Len(title) |-> IF title[i] = " " THEN "-" ELSE title[i]]
    IN S_hcr \o SelectSeq(dashed, LAMBDA c : c # ",") \o E_epub

\* lines 30-41
date_title_to_filename(title, padded) ==
    LET date == StrpTime(title) IN
    IF date.raises = "none" THEN S_hcr \o StrfTime(date, padded) \o E_epub
    ELSE FallbackName(title)

hcrTitleVars == <<hcr_title, hcr_is_date, hcr_filename>>
hcrLetterVars == <<hcr_page, hcr_min_words, hcr_full>>
hcrPostVars == <<hcr_archive, hcr_letters, hcr_num_posts, hcr_max_cand, hcr_candidates, hcr_i,
                 hcr_posts, hcr_seen_dates>>

\* is_date_title is called with the title
IsDateTitleCall ==
    /\ hcr_pc = "title"
    /\ hcr_is_date' = is_date_title(hcr_title)
    /\ hcr_pc' = "checked"
    /\ UNCHANGED <<hcr_title, hcr_filename, hcrLetterVars, hcrPostVars>>
    /\ UNCHANGED notHcr

\* date_title_to_filename is called with the title
DateTitleToFilenameCall ==
    /\ hcr_pc = "checked"
    /\ \E padded \in {TRUE, FALSE} : hcr_filename' = date_title_to_filename(hcr_title, padded)
    /\ hcr_pc' = "named"
    /\ UNCHANGED <<hcr_title, hcr_is_date, hcrLetterVars, hcrPostVars>>
    /\ UNCHANGED notHcr

TitleNext ==
    \/ IsDateTitleCall
    \/ DateTitleToFilenameCall

NoPage ==
    [fetch |-> "ok", audio |-> FALSE, video |-> FALSE, classes |-> {}, div |-> <<>>,
     article |-> FALSE, texts |-> <<>>]

HcrStart(pc) ==
    /\ hcr_pc = pc
    /\ hcr_title = <<>>
    /\ hcr_is_date = FALSE
    /\ hcr_filename = <<>>
    /\ hcr_page = NoPage
    /\ hcr_min_words = 0
    /\ hcr_full = "none"
    /\ hcr_archive = <<>>
    /\ hcr_letters = {}
    /\ hcr_num_posts = 0
    /\ hcr_max_cand = 0
    /\ hcr_candidates = <<>>
    /\ hcr_i = 1
    /\ hcr_posts = <<>>
    /\ hcr_seen_dates = {}

HcrIdle == HcrStart("off")

\* the titles: a month name or what only resembles one, one or two blanks, a
\* day that exists or not, a year, and perhaps a newline at the end
TitleMonths == { <<"F", "e", "b", "r", "u", "a", "r", "y">>, <<"D", "e", "c", "e", "m", "b", "e", "r">>, <<"D", "e", "c">>, <<"d", "e", "c", "e", "m", "b", "e", "r">> }
TitleBlanks == { <<" ">>, <<" ", " ">> }
TitleDays == { <<"2">>, <<"0", "2">>, <<"2", "9">>, <<"3", "0">>, <<"4", "5">>, <<"0">> }
TitleYears == { <<"2", "0", "2", "5">>, <<"2", "0", "2", "4">>, <<"0", "0", "0", "1">>,
                <<"0", "0", "0", "0">> }
TitleEnds == { <<>>, <<"\n">> }

Titles ==
    { month \o blanks \o day \o <<",", " ">> \o year \o end :
        month \in TitleMonths, blanks \in TitleBlanks, day \in TitleDays, year \in TitleYears,
        end \in TitleEnds }

TitleInit ==
    /\ hcr_pc = "title"
    /\ hcr_title \in Titles
    /\ hcr_is_date = FALSE
    /\ hcr_filename = <<>>
    /\ hcr_page = NoPage
    /\ hcr_min_words = 0
    /\ hcr_full = "none"
    /\ hcr_archive = <<>>
    /\ hcr_letters = {}
    /\ hcr_num_posts = 0
    /\ hcr_max_cand = 0
    /\ hcr_candidates = <<>>
    /\ hcr_i = 1
    /\ hcr_posts = <<>>
    /\ hcr_seen_dates = {}

MaxNodes == 2       \* text nodes in the content container of a post page
MaxMinWords == 3    \* min_word_count

\* re.search(word, s): s holds word somewhere
Contains(s, word) ==
    \E i \in 1..(Len(s) - Len(word) + 1) : SubSeq(s, i, i + Len(word) - 1) = word

S_podcast == <<"p", "o", "d", "c", "a", "s", "t">>
S_video == <<"v", "i", "d", "e", "o">>

\* line 133: re.compile(r"(body|post-content|available-content)")
ContainerClassWords ==
    { <<"b", "o", "d", "y">>, <<"p", "o", "s", "t", "-", "c", "o", "n", "t", "e", "n", "t">>, <<"a", "v", "a", "i", "l", "a", "b", "l", "e", "-", "c", "o", "n", "t", "e", "n", "t">> }

\* the classes met on the elements of a page, and those a div may carry
PageClasses == { <<"P", "o", "d", "c", "a", "s", "t", "-", "e", "m", "b", "e", "d">>, <<"v", "i", "d", "e", "o", "P", "l", "a", "y", "e", "r">>, <<"n", "a", "v">> }
DivClasses == { <<"b", "o", "d", "y">>, <<"f", "o", "o", "t", "e", "r">> }

RECURSIVE SumOf(_)
SumOf(counts) == IF counts = <<>> THEN 0 ELSE Head(counts) + SumOf(Tail(counts))

\* a count that takes the words of all text nodes
WordCountOfAllNodes(texts) == SumOf(texts)

\* lines 140-141: len(content_div.get_text(strip=True).split()): the text nodes
\* are stripped, the empty ones dropped and the others joined with nothing
\* between them, so the last word of a node and the first of the next are one
WordCount(texts) ==
    LET filled == SelectSeq(texts, LAMBDA w : w > 0) IN
    IF filled = <<>> THEN 0 ELSE SumOf(filled) - (Len(filled) - 1)

\* lines 116-148; page.texts holds the number of words of each text node of the
\* content container
is_full_letter(page, min_word_count) ==
    LET exc == IF page.fetch = "ok" THEN "none" ELSE "RequestException"
        podcast == \E c \in page.classes : Contains(Lower(c), S_podcast)
        video == \E c \in page.classes : Contains(Lower(c), S_video)
        content_div == \/ \E w \in ContainerClassWords : Contains(page.div, w)
                       \/ page.article
    IN IF exc # "none"
       THEN (IF Caught(exc, <<"Exception">>) THEN "False" ELSE exc)
       ELSE IF page.audio \/ podcast THEN "False"
       ELSE IF page.video \/ video THEN "False"
       ELSE IF ~content_div THEN "False"
       ELSE IF WordCount(page.texts) > min_word_count THEN "True" ELSE "False"

\* is_full_letter is called with the URL of the page
IsFullLetterCall ==
    /\ hcr_pc = "page"
    /\ hcr_full' = is_full_letter(hcr_page, hcr_min_words)
    /\ hcr_pc' = "judged"
    /\ UNCHANGED <<hcrTitleVars, hcr_page, hcr_min_words, hcrPostVars>>
    /\ UNCHANGED notHcr

LetterNext == IsFullLetterCall

Pages ==
    [fetch : {"ok", "error"}, audio : BOOLEAN, video : BOOLEAN, classes : SUBSET PageClasses,
     div : DivClasses, article : BOOLEAN, texts : SeqsUpTo(0..2, MaxNodes)]

LetterInit ==
    /\ hcr_pc = "page"
    /\ hcr_page \in Pages
    /\ hcr_min_words \in 0..MaxMinWords
    /\ hcr_title = <<>>
    /\ hcr_is_date = FALSE
    /\ hcr_filename = <<>>
    /\ hcr_full = "none"
    /\ hcr_archive = <<>>
    /\ hcr_letters = {}
    /\ hcr_num_posts = 0
    /\ hcr_max_cand = 0
    /\ hcr_candidates = <<>>
    /\ hcr_i = 1
    /\ hcr_posts = <<>>
    /\ hcr_seen_dates = {}

MaxLinks == 3       \* post links on the archive page
MaxPosts == 2       \* num_posts
MaxCandidates == 2  \* max_candidates

\* lines 58-88: the first loop: the links with a new URL and a date title, up to
\* the break at max_candidates; seen holds seen_urls
RECURSIVE Candidates(_, _, _, _)
Candidates(links, seen, max_candidates, candidates) ==
    IF links = <<>> THEN candidates
    ELSE LET url == Head(links)[1]
             title == Head(links)[2]
         IN IF url \in seen
            THEN Candidates(Tail(links), seen, max_candidates, candidates)
            ELSE IF title = <<>> \/ ~is_date_title(title)
            THEN Candidates(Tail(links), seen \cup {url}, max_candidates, candidates)
            ELSE IF Len(candidates) + 1 >= max_candidates
            THEN Append(candidates, Head(links))
            ELSE Candidates(Tail(links), seen \cup {url}, max_candidates,
                            Append(candidates, Head(links)))

\* lines 47-88: the archive is fetched (raise_for_status may raise) and the
\* candidates are collected
CollectCandidates ==
    /\ hcr_pc = "start"
    /\ \E answered \in {TRUE, FALSE} :
          IF answered
          THEN /\ hcr_candidates' = Candidates(hcr_archive, {}, hcr_max_cand, <<>>)
               /\ hcr_pc' = "filter"
          ELSE /\ hcr_pc' = "raised"
               /\ UNCHANGED hcr_candidates
    /\ UNCHANGED <<hcrTitleVars, hcrLetterVars, hcr_archive, hcr_letters, hcr_num_posts,
                   hcr_max_cand, hcr_i, hcr_posts, hcr_seen_dates>>
    /\ UNCHANGED notHcr

\* lines 95-111: one iteration of the second loop; is_full_letter answers for
\* the URL
CheckCandidate ==
    /\ hcr_pc = "filter"
    /\ hcr_i <= Len(hcr_candidates)
    /\ LET candidate == hcr_candidates[hcr_i] IN
       IF candidate[2] \in hcr_seen_dates
       THEN /\ hcr_i' = hcr_i + 1
            /\ UNCHANGED <<hcr_pc, hcr_posts, hcr_seen_dates>>
       ELSE IF candidate[1] \in hcr_letters
       THEN /\ hcr_posts' = Append(hcr_posts, candidate)
            /\ hcr_seen_dates' = hcr_seen_dates \cup {candidate[2]}
            /\ hcr_i' = hcr_i + 1
            /\ hcr_pc' = IF Len(hcr_posts') >= hcr_num_posts THEN "returned" ELSE "filter"
       ELSE /\ hcr_i' = hcr_i + 1
            /\ UNCHANGED <<hcr_pc, hcr_posts, hcr_seen_dates>>
    /\ UNCHANGED <<hcrTitleVars, hcrLetterVars, hcr_archive, hcr_letters, hcr_num_posts,
                   hcr_max_cand, hcr_candidates>>
    /\ UNCHANGED notHcr

\* line 113: the candidates are used up and posts is returned
ReturnPosts ==
    /\ hcr_pc = "filter"
    /\ hcr_i > Len(hcr_candidates)
    /\ hcr_pc' = "returned"
    /\ UNCHANGED <<hcrTitleVars, hcrLetterVars, hcrPostVars>>
    /\ UNCHANGED notHcr

RecentNext ==
    \/ CollectCandidates
    \/ CheckCandidate
    \/ ReturnPosts

\* the archive: two URLs, each title a date written in one of two ways or no date
ArchiveUrls == { <<"/", "p", "/", "a">>, <<"/", "p", "/", "b">> }
ArchiveTitles == { <<"D", "e", "c", "e", "m", "b", "e", "r", " ", "5", ",", " ", "2", "0", "2", "5">>,
                   <<"D", "e", "c", "e", "m", "b", "e", "r", " ", "0", "5", ",", " ", "2", "0", "2", "5">>,
                   <<"P", "o", "d", "c", "a", "s", "t">> }

RecentInit ==
    /\ hcr_pc = "start"
    /\ hcr_archive \in SeqsUpTo(ArchiveUrls \X ArchiveTitles, MaxLinks)
    /\ hcr_letters \in SUBSET ArchiveUrls
    /\ hcr_num_posts \in 0..MaxPosts
    /\ hcr_max_cand \in 0..MaxCandidates
    /\ hcr_candidates = <<>>
    /\ hcr_i = 1
    /\ hcr_posts = <<>>
    /\ hcr_seen_dates = {}
    /\ hcr_title = <<>>
    /\ hcr_is_date = FALSE
    /\ hcr_filename = <<>>
    /\ hcr_page = NoPage
    /\ hcr_min_words = 0
    /\ hcr_full = "none"

-----------------------------------------------------------------------------
(* bin/scrapers/scrape_hn_to_epub.py: get_top_stories                      *)

MaxTop == 3         \* IDs in the answer of /topstories.json
MaxStories == 3     \* num_stories

StoryIds == {1, 2, 3}

\* a slice that takes one element more
SliceUpToAndOneMore(list, n) == SubSeq(list, 1, IF n + 1 < Len(list) THEN n + 1 ELSE Len(list))

\* line 28: list[:n]; a negative n counts from the end
SliceUpTo(list, n) ==
    IF n >= 0 THEN SubSeq(list, 1, IF n < Len(list) THEN n ELSE Len(list))
    ELSE SubSeq(list, 1, IF Len(list) + n > 0 THEN Len(list) + n ELSE 0)

\* lines 26-28: the list of IDs is fetched and cut; raise_for_status may raise
FetchTopStories ==
    /\ hn_pc = "start"
    /\ \E answered \in {TRUE, FALSE} :
          IF answered
          THEN /\ hn_story_ids' = SliceUpTo(hn_top, hn_num_stories)
               /\ hn_pc' = "loop"
          ELSE /\ hn_pc' = "raised"
               /\ UNCHANGED hn_story_ids
    /\ UNCHANGED <<hn_top, hn_with_url, hn_num_stories, hn_i, hn_stories, hn_requested>>
    /\ UNCHANGED notHn

\* lines 32-56: one iteration of the loop over story_ids
FetchItem ==
    /\ hn_pc = "loop"
    /\ hn_i <= Len(hn_story_ids)
    /\ LET story_id == hn_story_ids[hn_i] IN
       /\ hn_requested' = Append(hn_requested, story_id)
       /\ \E answered \in {TRUE, FALSE} :
             IF ~answered
             THEN /\ hn_pc' = "raised"
                  /\ UNCHANGED <<hn_i, hn_stories>>
             ELSE IF story_id \notin hn_with_url
             THEN /\ hn_i' = hn_i + 1
                  /\ UNCHANGED <<hn_pc, hn_stories>>
             ELSE /\ hn_stories' = Append(hn_stories, story_id)
                  /\ hn_i' = hn_i + 1
                  /\ hn_pc' = IF Len(hn_stories') >= hn_num_stories THEN "returned"
                              ELSE "loop"
    /\ UNCHANGED <<hn_top, hn_with_url, hn_num_stories, hn_story_ids>>
    /\ UNCHANGED notHn

\* line 58: the loop is over and stories is returned
ReturnStories ==
    /\ hn_pc = "loop"
    /\ hn_i > Len(hn_story_ids)
    /\ hn_pc' = "returned"
    /\ UNCHANGED <<hn_top, hn_with_url, hn_num_stories, hn_story_ids, hn_i, hn_stories,
                   hn_requested>>
    /\ UNCHANGED notHn

HnNext ==
    \/ FetchTopStories
    \/ FetchItem
    \/ ReturnStories

HnStart(pc, top, with_url, num_stories) ==
    /\ hn_pc = pc
    /\ hn_top = top
    /\ hn_with_url = with_url
    /\ hn_num_stories = num_stories
    /\ hn_story_ids = <<>>
    /\ hn_i = 1
    /\ hn_stories = <<>>
    /\ hn_requested = <<>>

HnIdle == HnStart("off", <<>>, {}, 0)

HnInit ==
    \E top \in SeqsUpTo(StoryIds, MaxTop), with_url \in SUBSET StoryIds,
       num_stories \in 0..MaxStories :
        HnStart("start", top, with_url, num_stories)

-----------------------------------------------------------------------------
(* bin/utils/ui_helpers.py: detect_scraper_prefix, get_scraper_categories   *)

MaxKeys == 3        \* keys in the config given to get_scraper_categories

K_HCR == <<"H", "C", "R">>
K_HN == <<"H", "N">>
K_HACKERNEWS == <<"H", "A", "C", "K", "E", "R", "N", "E", "W", "S">>
K_HACKADAY == <<"H", "A", "C", "K", "A", "D", "A", "Y">>
K_NUM == <<"N", "U", "M", "_">>
K_SUBDIR == <<"_", "S", "U", "B", "D", "I", "R">>
K_HCR_SUBDIR == K_HCR \o K_SUBDIR
K_HACKERNEWS_SUBDIR == K_HACKERNEWS \o K_SUBDIR

\* lines 47-52, in the order of the dict
KNOWN_SCRAPER_PREFIXES ==
    << <<K_HCR, <<"H", "C", "R", " ", "(", "L", "e", "t", "t", "e", "r", "s", " ", "f", "r", "o", "m", " ", "a", "n", " ", "A", "m", "e", "r", "i", "c", "a", "n", ")">>>>,
       <<K_HN, <<"H", "a", "c", "k", "e", "r", " ", "N", "e", "w", "s">>>>,
       <<K_HACKERNEWS, <<"H", "a", "c", "k", "e", "r", " ", "N", "e", "w", "s">>>>,
       <<K_HACKADAY, <<"H", "a", "c", "k", "a", "d", "a", "y">>>> >>

\* lines 55-59
SCRAPER_SPECIAL_KEYS ==
    << <<<<"M", "I", "N", "_", "L", "E", "T", "T", "E", "R", "_", "W", "O", "R", "D", "_", "C", "O", "U", "N", "T">>, K_HCR>>,
       <<<<"M", "A", "X", "_", "H", "C", "R", "_", "C", "A", "N", "D", "I", "D", "A", "T", "E", "S">>, K_HCR>>,
       <<K_HACKERNEWS_SUBDIR, K_HN>> >>

\* dict.get(key, default) on a sequence of pairs
PairsGet(pairs, key, default) ==
    IF \E i \in 1..Len(pairs) : pairs[i][1] = key
    THEN pairs[CHOOSE i \in 1..Len(pairs) : pairs[i][1] = key][2]
    ELSE default

\* str.title(): a letter after a letter is made small, every other letter big
TitleCase(s) ==
    [i \in 1..Len(s) |->
        IF i > 1 /\ (IndexIn(UpperLetters, s[i - 1]) > 0 \/ IndexIn(LowerLetters, s[i - 1]) > 0)
        THEN LowerChar(s[i]) ELSE UpperChar(s[i])]

\* prefix.replace("_", " ").title()
AutoDisplayName(prefix) ==
    TitleCase([i \in 1..Len(prefix) |-> IF prefix[i] = "_" THEN " " ELSE prefix[i]])

\* lines 89-93: group 1 of NUM_([A-Z_]+)_(ITEMS|STORIES|POSTS|ARTICLES) matched at
\* the start of key, the longest the greedy "+" leaves; <<>> without a match
NumPatternWords == { <<"_", "I", "T", "E", "M", "S">>, <<"_", "S", "T", "O", "R", "I", "E", "S">>, <<"_", "P", "O", "S", "T", "S">>, <<"_", "A", "R", "T", "I", "C", "L", "E", "S">> }

NumPatternPrefix(key) ==
    LET body == SubSeq(key, Len(K_NUM) + 1, Len(key))
        span == SpanOf(body, {"_"} \cup {UpperLetters[i] : i \in 1..Len(UpperLetters)})
        ends == {n \in 1..span : \E w \in NumPatternWords :
                                    StartsWith(SubSeq(body, n + 1, Len(body)), w)}
    IN IF StartsWith(key, K_NUM) /\ ends # {}
       THEN SubSeq(body, 1, CHOOSE n \in ends : \A k \in ends : k <= n)
       ELSE <<>>

\* lines 96-103
scraper_suffixes ==
    << <<"_", "F", "E", "T", "C", "H", "_", "T", "I", "M", "E", "O", "U", "T">>,
       <<"_", "A", "P", "I", "_", "B", "A", "S", "E">>,
       <<"_", "B", "L", "O", "G", "_", "U", "R", "L">>,
       <<"_", "A", "R", "C", "H", "I", "V", "E", "_", "U", "R", "L">>,
       <<"_", "M", "A", "X", "_", "F", "I", "L", "E", "N", "A", "M", "E", "_", "L", "E", "N", "G", "T", "H">>,
       <<"_", "S", "U", "B", "D", "I", "R">> >>

NotScraperPrefixes == { <<"U", "P", "L", "O", "A", "D">>, <<"X", "T", "C">>, <<"E", "P", "A", "P", "E", "R">>, <<"C", "O", "N", "N", "E", "C", "T", "I", "O", "N">> }

NoPrefix == [found |-> FALSE, prefix |-> <<>>, display_name |-> <<>>]

Detected(prefix, display_name) ==
    [found |-> TRUE, prefix |-> prefix, display_name |-> display_name]

\* lines 104-109: the first suffix of the list that gives a prefix
RECURSIVE DetectBySuffix(_, _)
DetectBySuffix(key, i) ==
    IF i > Len(scraper_suffixes) THEN NoPrefix
    ELSE LET suffix == scraper_suffixes[i]
             prefix == SubSeq(key, 1, Len(key) - Len(suffix))
         IN IF EndsWith(key, suffix) /\ prefix # <<>> /\ prefix \notin NotScraperPrefixes
            THEN Detected(prefix, PairsGet(KNOWN_SCRAPER_PREFIXES, prefix,
                                           AutoDisplayName(prefix)))
            ELSE DetectBySuffix(key, i + 1)

\* lines 62-111
detect_scraper_prefix(key) ==
    LET known == {i \in 1..Len(KNOWN_SCRAPER_PREFIXES) :
                    LET prefix == KNOWN_SCRAPER_PREFIXES[i][1] IN
                    \/ StartsWith(key, prefix \o <<"_">>)
                    \/ StartsWith(key, K_NUM \o prefix \o <<"_">>)}
        first == CHOOSE i \in known : \A j \in known : i <= j
        special == PairsGet(SCRAPER_SPECIAL_KEYS, key, <<>>)
    IN IF special # <<>>
       THEN Detected(special, PairsGet(KNOWN_SCRAPER_PREFIXES, special, special))
       ELSE IF known # {}
       THEN Detected(KNOWN_SCRAPER_PREFIXES[first][1], KNOWN_SCRAPER_PREFIXES[first][2])
       ELSE IF EndsWith(key, K_SUBDIR) /\ key \notin {K_HCR_SUBDIR, K_HACKERNEWS_SUBDIR}
       THEN Detected(SubSeq(key, 1, Len(key) - 7),
                     AutoDisplayName(SubSeq(key, 1, Len(key) - 7)))
       ELSE IF NumPatternPrefix(key) # <<>>
       THEN Detected(NumPatternPrefix(key), AutoDisplayName(NumPatternPrefix(key)))
       ELSE DetectBySuffix(key, 1)

\* lines 123-130: scraper_settings as the prefixes in the order met, with the
\* display name of the first key and the keys in the order of config
ScraperSettings(config) ==
    LET hits == SelectSeq(config, LAMBDA key : /\ detect_scraper_prefix(key).found
                                               /\ detect_scraper_prefix(key).prefix # <<>>)
        prefixes == {detect_scraper_prefix(hits[i]).prefix : i \in 1..Len(hits)}
    IN [prefix \in prefixes |->
          LET mine == SelectSeq(hits, LAMBDA key : detect_scraper_prefix(key).prefix = prefix)
          IN [display_name |-> detect_scraper_prefix(mine[1]).display_name, keys |-> mine]]

\* sorted(list) of strs
SortedList(list) ==
    LET n == Len(list)
        rank(i) == Cardinality({j \in 1..n : \/ StrLess(list[j], list[i])
                                            \/ (list[j] = list[i] /\ j < i)})
    IN [k \in 1..n |-> list[CHOOSE i \in 1..n : rank(i) = k - 1]]

\* categories[name] = keys: a name already there keeps its place
OrderedDictSet(dict, name, keys) ==
    IF \E i \in 1..Len(dict) : dict[i][1] = name
    THEN [i \in 1..Len(dict) |-> IF dict[i][1] = name THEN <<name, keys>> ELSE dict[i]]
    ELSE Append(dict, <<name, keys>>)

S_Scraper == <<" ", "S", "c", "r", "a", "p", "e", "r">>

\* line 134: sorted(scraper_settings.keys())
PrefixOrder(settings) == Sorted(DOMAIN settings)

\* lines 132-139
RECURSIVE BuildCategories(_, _, _)
BuildCategories(settings, order, categories) ==
    IF order = <<>> THEN categories
    ELSE LET info == settings[Head(order)] IN
         BuildCategories(settings, Tail(order),
             OrderedDictSet(categories, info.display_name \o S_Scraper,
                            SortedList(info.keys)))

\* lines 113-139
GetScraperCategories ==
    /\ cat_pc = "start"
    /\ LET settings == ScraperSettings(cat_config) IN
       cat_categories' = BuildCategories(settings, PrefixOrder(settings), <<>>)
    /\ cat_pc' = "returned"
    /\ UNCHANGED cat_config
    /\ UNCHANGED notCat

CatNext == GetScraperCategories

CatStart(pc, config) ==
    /\ cat_pc = pc
    /\ cat_config = config
    /\ cat_categories = <<>>

CatIdle == CatStart("off", <<>>)

\* keys of three known scrapers, of one found by its _SUBDIR key, and one of none
ConfigKeyPool ==
    { <<"N", "U", "M", "_", "H", "C", "R", "_", "P", "O", "S", "T", "S">>,
      <<"H", "C", "R", "_", "S", "U", "B", "D", "I", "R">>,
      <<"H", "A", "C", "K", "A", "D", "A", "Y", "_", "B", "L", "O", "G", "_", "U", "R", "L">>,
      <<"N", "U", "M", "_", "H", "N", "_", "S", "T", "O", "R", "I", "E", "S">>,
      <<"H", "A", "C", "K", "E", "R", "N", "E", "W", "S", "_", "A", "P", "I", "_", "B", "A", "S", "E">>,
      <<"X", "K", "C", "D", "_", "S", "U", "B", "D", "I", "R">>,
      <<"T", "E", "X", "T", "S", "_", "D", "I", "R">> }

\* a dict holds a key once
CatInit ==
    \E config \in SeqsUpTo(ConfigKeyPool, MaxKeys) :
        /\ \A i, j \in 1..Len(config) : i # j => config[i] # config[j]
        /\ CatStart("start", config)

ScrapersIdle == HcrIdle /\ HnIdle /\ CatIdle

-----------------------------------------------------------------------------
(* bin/gui.py: GenerateTab.run_script_with_progress and the same loop of    *)
(* SyncTab.sync_files.run                                                  *)

MaxChildWrites == 3     \* writes a child makes before it exits
PipeCap == 2            \* lines (chunks) a pipe holds before a write blocks

NoWrite == <<"<none>">>
StderrChunk == <<"<stderr>">>

\* what a child may print on stdout: a progress line, one whose total is 0, an
\* ordinary line, and a line that begins like a progress line and is none
ChildLines ==
    { OutputProgress(1, 0, 1, 2, <<"x">>),
      OutputProgress(0, 0, 0, 0, <<"y">>),
      <<"o", "k", "\n">>,
      S_PROGRESS \o <<"1", "|", "z", "\n">> }

\* gui.py line 509: f"{current_item} ({processed}/{total})"
StatusText(p) ==
    p.current_item \o <<" ", "(">> \o IntToStr(p.processed) \o <<"/">> \o IntToStr(p.total)
        \o <<")">>

BarEvent(p) == [op |-> "bar", processed |-> p.processed, total |-> p.total, text |-> <<>>]
StatusEvent(p) == [op |-> "status", processed |-> 0, total |-> 0, text |-> StatusText(p)]
InsertEvent(text) == [op |-> "insert", processed |-> 0, total |-> 0, text |-> text]
SeeEvent == [op |-> "see", processed |-> 0, total |-> 0, text |-> <<>>]

\* lines 617-620: append_output schedules the insert and the scroll
AppendOutput(text) == <<InsertEvent(text), SeeEvent>>

\* a loop body that also shows the progress lines in the details
LineCallbacksEchoAll(line) ==
    LET p == ParseProgressLine(Strip(line)) IN
    IF ~p.none
    THEN (IF p.total > 0 THEN <<BarEvent(p)>> ELSE <<>>) \o <<StatusEvent(p)>>
             \o AppendOutput(line)
    ELSE AppendOutput(line)

\* lines 500-518: the callbacks the loop body schedules for one line
LineCallbacks(line) ==
    LET p == ParseProgressLine(Strip(line)) IN
    IF ~p.none
    THEN (IF p.total > 0 THEN <<BarEvent(p)>> ELSE <<>>) \o <<StatusEvent(p)>>
    ELSE AppendOutput(line)

S_Errors == <<"E", "r", "r", "o", "r", "s">>

guiChildVars == <<gui_child, gui_blocked, gui_writes, gui_emitted, gui_returncode>>
guiTkVars == <<gui_bar_log, gui_status_log, gui_details>>

\* lines 486-493: subprocess.Popen starts the child with two pipes; when it
\* raises, line 531 reports the error and False is returned
Popen ==
    /\ gui_pc = "start"
    /\ \E started \in {TRUE, FALSE} :
          IF started
          THEN /\ gui_child' = "running"
               /\ gui_pc' = "reading"
               /\ UNCHANGED <<gui_events, gui_result>>
          ELSE /\ gui_events' = gui_events \o AppendOutput(<<"E", "r", "r", "o", "r">>)
               /\ gui_pc' = "done"
               /\ gui_result' = "False"
               /\ UNCHANGED gui_child
    /\ UNCHANGED <<gui_blocked, gui_writes, gui_emitted, gui_stdout, gui_stderr,
                   gui_returncode, gui_handled, guiTkVars>>
    /\ UNCHANGED notGui

\* the child prints a line: it goes into the stdout pipe, or the child blocks
\* while the pipe is full
ChildWritesStdout ==
    /\ gui_child = "running"
    /\ gui_blocked = NoWrite
    /\ gui_writes < MaxChildWrites
    /\ gui_writes' = gui_writes + 1
    /\ \E line \in ChildLines :
          IF Len(gui_stdout) < PipeCap
          THEN /\ gui_stdout' = Append(gui_stdout, line)
               /\ gui_emitted' = Append(gui_emitted, line)
               /\ UNCHANGED gui_blocked
          ELSE /\ gui_blocked' = line
               /\ UNCHANGED <<gui_stdout, gui_emitted>>
    /\ UNCHANGED <<gui_pc, gui_child, gui_stderr, gui_returncode, gui_handled, gui_events,
                   guiTkVars, gui_result>>
    /\ UNCHANGED notGui

\* the child writes to stderr, or blocks while that pipe is full
ChildWritesStderr ==
    /\ gui_child = "running"
    /\ gui_blocked = NoWrite
    /\ gui_writes < MaxChildWrites
    /\ gui_writes' = gui_writes + 1
    /\ IF gui_stderr < PipeCap
       THEN gui_stderr' = gui_stderr + 1 /\ UNCHANGED gui_blocked
       ELSE gui_blocked' = StderrChunk /\ UNCHANGED gui_stderr
    /\ UNCHANGED <<gui_pc, gui_child, gui_emitted, gui_stdout, gui_returncode, gui_handled,
                   gui_events, guiTkVars, gui_result>>
    /\ UNCHANGED notGui

\* a blocked write goes through once its pipe has room
ChildUnblocks ==
    /\ gui_child = "running"
    /\ gui_blocked # NoWrite
    /\ IF gui_blocked = StderrChunk
       THEN /\ gui_stderr < PipeCap
            /\ gui_stderr' = gui_stderr + 1
            /\ UNCHANGED <<gui_stdout, gui_emitted>>
       ELSE /\ Len(gui_stdout) < PipeCap
            /\ gui_stdout' = Append(gui_stdout, gui_blocked)
            /\ gui_emitted' = Append(gui_emitted, gui_blocked)
            /\ UNCHANGED gui_stderr
    /\ gui_blocked' = NoWrite
    /\ UNCHANGED <<gui_pc, gui_child, gui_writes, gui_returncode, gui_handled, gui_events,
                   guiTkVars, gui_result>>
    /\ UNCHANGED notGui

\* the child exits, which closes its ends of the pipes
ChildExits ==
    /\ gui_child = "running"
    /\ gui_blocked = NoWrite
    /\ gui_child' = "exited"
    /\ \E code \in {0, 1} : gui_returncode' = code
    /\ UNCHANGED <<gui_pc, gui_blocked, gui_writes, gui_emitted, gui_stdout, gui_stderr,
                   gui_handled, gui_events, guiTkVars, gui_result>>
    /\ UNCHANGED notGui

\* lines 496-518: readline() returns a line and the loop body handles it
ReadLine ==
    /\ gui_pc = "reading"
    /\ gui_stdout # <<>>
    /\ gui_handled' = Append(gui_handled, Head(gui_stdout))
    /\ gui_stdout' = Tail(gui_stdout)
    /\ gui_events' = gui_events \o LineCallbacks(Head(gui_stdout))
    /\ UNCHANGED <<gui_pc, guiChildVars, gui_stderr, guiTkVars, gui_result>>
    /\ UNCHANGED notGui

\* lines 496-498: readline() returns "" at end of file and the loop ends
ReadEndOfFile ==
    /\ gui_pc = "reading"
    /\ gui_stdout = <<>>
    /\ gui_child = "exited"
    /\ gui_pc' = "wait"
    /\ UNCHANGED <<guiChildVars, gui_stdout, gui_stderr, gui_handled, gui_events, guiTkVars,
                   gui_result>>
    /\ UNCHANGED notGui

\* lines 521-528: process.wait(), stderr is read and shown when not empty, the
\* result is returncode == 0
WaitAndReadStderr ==
    /\ gui_pc = "wait"
    /\ gui_child = "exited"
    /\ gui_events' = IF gui_stderr > 0 THEN gui_events \o AppendOutput(S_Errors)
                     ELSE gui_events
    /\ gui_stderr' = 0
    /\ gui_result' = IF gui_returncode = 0 THEN "True" ELSE "False"
    /\ gui_pc' = "done"
    /\ UNCHANGED <<guiChildVars, gui_stdout, gui_handled, guiTkVars>>
    /\ UNCHANGED notGui

\* the Tk main loop runs the oldest scheduled callback
TkRunsCallback ==
    /\ gui_events # <<>>
    /\ LET ev == Head(gui_events) IN
       /\ gui_bar_log' = IF ev.op = "bar" THEN Append(gui_bar_log, <<ev.processed, ev.total>>)
                         ELSE gui_bar_log
       /\ gui_status_log' = IF ev.op = "status" THEN Append(gui_status_log, ev.text)
                            ELSE gui_status_log
       /\ gui_details' = IF ev.op = "insert" THEN Append(gui_details, ev.text)
                         ELSE gui_details
    /\ gui_events' = Tail(gui_events)
    /\ UNCHANGED <<gui_pc, guiChildVars, gui_stdout, gui_stderr, gui_handled, gui_result>>
    /\ UNCHANGED notGui

GuiNext ==
    \/ Popen
    \/ ChildWritesStdout
    \/ ChildWritesStderr
    \/ ChildUnblocks
    \/ ChildExits
    \/ ReadLine
    \/ ReadEndOfFile
    \/ WaitAndReadStderr
    \/ TkRunsCallback

GuiStart(pc) ==
    /\ gui_pc = pc
    /\ gui_child = "none"
    /\ gui_blocked = NoWrite
    /\ gui_writes = 0
    /\ gui_emitted = <<>>
    /\ gui_stdout = <<>>
    /\ gui_stderr = 0
    /\ gui_returncode = 0
    /\ gui_handled = <<>>
    /\ gui_events = <<>>
    /\ gui_bar_log = <<>>
    /\ gui_status_log = <<>>
    /\ gui_details = <<>>
    /\ gui_result = "none"

GuiIdle == GuiStart("off")

GuiInit == GuiStart("start")

-----------------------------------------------------------------------------
(* bin/gui.py: SyncTab.sync_files.run with bin/upload_to_epaper.py as the   *)
(* child process                                                           *)

NoStatus == [text |-> "", code |-> 0, color |-> "white"]

\* upload_to_epaper.py lines 128-298: main has returned, by one of its return
\* statements or at its end, none of which passes an exit status, and the
\* interpreter ends with exit code 0
MainReturns ==
    /\ sync_pc = "running"
    /\ up_pc = "done"
    /\ sync_returncode' = 0
    /\ sync_pc' = "exited"
    /\ UNCHANGED <<sync_status, sync_bar>>
    /\ UNCHANGED notSync

\* an exception main has no handler for (line 197: os.path.getsize of a file
\* that is gone by then; a print to a closed pipe) ends the interpreter with
\* exit code 1
MainRaises ==
    /\ sync_pc = "running"
    /\ up_pc \in {"start", "folders", "uploads", "final", "cleanup"}
    /\ up_pc' = "raised"
    /\ sync_returncode' = 1
    /\ sync_pc' = "exited"
    /\ UNCHANGED <<sync_status, sync_bar>>
    /\ UNCHANGED <<up_fs0, up_fs, up_argv, up_keep_files, up_file_info, up_folders, up_i,
                   up_success, up_fail, up_uploaded, up_deleted, up_requests, up_progress,
                   up_calls>>
    /\ UNCHANGED <<cfgVars, pgVars, cvVars, guiVars, hcrVars, hnVars, catVars>>

\* gui.py lines 1180-1203: after the loop over the child's lines,
\* process.wait() and the final status, chosen by process.returncode alone; it
\* is scheduled after every status a PROGRESS line gave and so is what stays
FinalStatus ==
    /\ sync_pc = "exited"
    /\ IF sync_returncode = 0
       THEN /\ sync_status' = [text |-> "Sync complete!", code |-> 0, color |-> "green"]
            /\ sync_bar' = 1
       ELSE /\ sync_status' = [text |-> "Sync failed (exit code)", code |-> sync_returncode,
                               color |-> "red"]
            /\ sync_bar' = 0
    /\ sync_pc' = "done"
    /\ UNCHANGED sync_returncode
    /\ UNCHANGED notSync

SyncNext ==
    \/ UploadNext
    \/ MainReturns
    \/ MainRaises
    \/ FinalStatus

SyncStart(pc) ==
    /\ sync_pc = pc
    /\ sync_returncode = 0
    /\ sync_status = NoStatus
    /\ sync_bar = 0

SyncIdle == SyncStart("off")

\* sync_files has started the uploader, with the selected files as arguments
SyncInit == UploadInit /\ SyncStart("running")

-----------------------------------------------------------------------------
(* bin/config_reader.py                                                    *)

App == "application.config"
Secrets == "secrets.config"
ConfigNames == {App, Secrets}

\* no such file (a value no sequence of lines over the characters equals)
Missing == << <<"<missing>">> >>

MaxLines == 2       \* lines of a config file
MaxValLen == 3      \* characters of a generated config value

\* the existence check of lines 18-19 left out
PathExistsUnchecked(files, name) == TRUE

\* os.path.exists(config_path)
PathExists(files, name) == files[name] # Missing

FileLines(files, name) == IF files[name] = Missing THEN <<>> ELSE files[name]

\* lines 23-27: the stripped line is skipped
SkippedLine(line) == line = <<>> \/ StartsWith(line, <<"#">>)

\* the line split at every "=" instead of the first
ValueOfSplitAll(line) == Strip(Split(line, "=", 0 - 1)[2])

\* lines 30-33: key and value of a stripped line that holds "="
KeyOf(line) == Strip(Split(line, "=", 1)[1])
ValueOf(line) == Strip(Split(line, "=", 1)[2])

\* lines 22-45: `config` after one more line of the file, and what the line raised
AfterLine(config, rawLine) ==
    LET line == Strip(rawLine) IN
    IF SkippedLine(line) \/ Find(line, "=") = 0 THEN [raises |-> "none", config |-> config]
    ELSE LET c == CoerceValue(ValueOf(line)) IN
         IF c.raises # "none" THEN [raises |-> c.raises, config |-> config]
         ELSE [raises |-> "none", config |-> SetItem(config, KeyOf(line), c.val)]

\* line 52: get_config calls read_config_file("application.config")
GetConfig ==
    /\ cfg_pc = "idle"
    /\ cfg_pc' = "open"
    /\ cfg_file' = App
    /\ cfg_config' = EmptyDict
    /\ cfg_outcome' = [cfg_outcome EXCEPT ![App] = "running"]
    /\ UNCHANGED <<cfg_files, cfg_i, cfg_app, cfg_returns, cfg_result, cfg_error, cfg_warned>>
    /\ UNCHANGED notCfg

\* lines 11-19: the file is looked for; FileNotFoundError when it is not there
ReadConfigOpen ==
    /\ cfg_pc = "open"
    /\ IF PathExists(cfg_files, cfg_file)
       THEN /\ cfg_pc' = "lines"
            /\ cfg_i' = 1
            /\ UNCHANGED cfg_outcome
       ELSE /\ cfg_pc' = "except"
            /\ cfg_outcome' = [cfg_outcome EXCEPT ![cfg_file] = "FileNotFoundError"]
            /\ UNCHANGED cfg_i
    /\ UNCHANGED <<cfg_files, cfg_file, cfg_config, cfg_app, cfg_returns, cfg_result,
                   cfg_error, cfg_warned>>
    /\ UNCHANGED notCfg

\* lines 22-45: one iteration of `for line in f`
ReadConfigLine ==
    /\ cfg_pc = "lines"
    /\ cfg_i <= Len(FileLines(cfg_files, cfg_file))
    /\ LET r == AfterLine(cfg_config, FileLines(cfg_files, cfg_file)[cfg_i]) IN
       IF r.raises = "none"
       THEN /\ cfg_config' = r.config
            /\ cfg_i' = cfg_i + 1
            /\ UNCHANGED <<cfg_pc, cfg_outcome>>
       ELSE /\ cfg_pc' = "except"
            /\ cfg_outcome' = [cfg_outcome EXCEPT ![cfg_file] = r.raises]
            /\ UNCHANGED <<cfg_config, cfg_i>>
    /\ UNCHANGED <<cfg_files, cfg_file, cfg_app, cfg_returns, cfg_result, cfg_error,
                   cfg_warned>>
    /\ UNCHANGED notCfg

\* line 47: return config
ReadConfigReturn ==
    /\ cfg_pc = "lines"
    /\ cfg_i > Len(FileLines(cfg_files, cfg_file))
    /\ cfg_pc' = "after_read"
    /\ cfg_outcome' = [cfg_outcome EXCEPT ![cfg_file] = "returned"]
    /\ cfg_returns' = [cfg_returns EXCEPT ![cfg_file] = cfg_config]
    /\ UNCHANGED <<cfg_files, cfg_file, cfg_i, cfg_config, cfg_app, cfg_result, cfg_error,
                   cfg_warned>>
    /\ UNCHANGED notCfg

\* lines 52-55: app_config is bound, read_config_file("secrets.config") is called
GetConfigReadSecrets ==
    /\ cfg_pc = "after_read"
    /\ cfg_file = App
    /\ cfg_app' = cfg_returns[App]
    /\ cfg_pc' = "open"
    /\ cfg_file' = Secrets
    /\ cfg_config' = EmptyDict
    /\ cfg_outcome' = [cfg_outcome EXCEPT ![Secrets] = "running"]
    /\ UNCHANGED <<cfg_files, cfg_i, cfg_returns, cfg_result, cfg_error, cfg_warned>>
    /\ UNCHANGED notCfg

\* lines 56, 60: app_config.update(secrets_config); return app_config
GetConfigUpdate ==
    /\ cfg_pc = "after_read"
    /\ cfg_file = Secrets
    /\ cfg_app' = DictUpdate(cfg_app, cfg_returns[Secrets])
    /\ cfg_result' = cfg_app'
    /\ cfg_pc' = "returned"
    /\ UNCHANGED <<cfg_files, cfg_file, cfg_i, cfg_config, cfg_outcome, cfg_returns,
                   cfg_error, cfg_warned>>
    /\ UNCHANGED notCfg

\* The handler an exception of read_config_file meets in get_config: the call of
\* line 52 is outside the try, the call of line 55 is inside it
CaughtInGetConfig(name, exc) == name = Secrets /\ exc = "FileNotFoundError"

\* lines 57-60: except FileNotFoundError: warn, return app_config; any other
\* exception leaves get_config
GetConfigExcept ==
    /\ cfg_pc = "except"
    /\ IF CaughtInGetConfig(cfg_file, cfg_outcome[cfg_file])
       THEN /\ cfg_warned' = TRUE
            /\ cfg_result' = cfg_app
            /\ cfg_pc' = "returned"
            /\ UNCHANGED cfg_error
       ELSE /\ cfg_error' = cfg_outcome[cfg_file]
            /\ cfg_pc' = "raised"
            /\ UNCHANGED <<cfg_warned, cfg_result>>
    /\ UNCHANGED <<cfg_files, cfg_file, cfg_i, cfg_config, cfg_app, cfg_outcome, cfg_returns>>
    /\ UNCHANGED notCfg

ConfigNext ==
    \/ GetConfig
    \/ ReadConfigOpen
    \/ ReadConfigLine
    \/ ReadConfigReturn
    \/ GetConfigReadSecrets
    \/ GetConfigUpdate
    \/ GetConfigExcept

ConfigStart(files) ==
    /\ cfg_files = files
    /\ cfg_pc = "idle"
    /\ cfg_file = App
    /\ cfg_i = 1
    /\ cfg_config = EmptyDict
    /\ cfg_app = EmptyDict
    /\ cfg_outcome = [n \in ConfigNames |-> "not_called"]
    /\ cfg_returns = [n \in ConfigNames |-> EmptyDict]
    /\ cfg_result = EmptyDict
    /\ cfg_error = "none"
    /\ cfg_warned = FALSE

\* The lines the two files are drawn from: blank, comment, no "=", spaces
\* around key and value, "=" inside the value, a repeated key, every value type
AppLinePool ==
    { <<" ", " ">>,
      <<" ", "#", "k", "=", "1">>,
      <<"k">>,
      <<" ", "k", " ", "=", " ", "a", "=", "b", " ", "\n">>,
      <<"k", "=", "1", "2", "\n">>,
      <<"j", "=", "T", "r", "u", "e", "\n">> }

SecretsLinePool ==
    { <<"k", "=", "1", ".", "5", "\n">>,
      <<"s", "=", "x", "\n">>,
      <<"k", "=", SuperscriptTwo, "\n">> }

ConfigOthersIdle == ProgressIdle /\ UploadIdle /\ ConvertIdle /\ GuiIdle /\ ScrapersIdle /\ SyncIdle

ConfigInit ==
    \E a \in SeqsUpTo(AppLinePool, MaxLines) \cup {Missing},
       b \in SeqsUpTo(SecretsLinePool, MaxLines) \cup {Missing} :
        ConfigStart([n \in ConfigNames |-> IF n = App THEN a ELSE b])

InitConfig == ConfigInit /\ ConfigOthersIdle

ConfigSpec == InitConfig /\ [][ConfigNext]_vars

\* One "v = <value>" line in application.config, the value any string over
\* ValueChars of at most MaxValLen characters or one of the longer literals
ValueChars == {"1", "0", ".", "-", "e", "a", SuperscriptTwo}

LongValues ==
    { S_true, <<"T", "r", "u", "e">>, <<"F", "A", "L", "S", "E">>, S_false,
      <<"t", "r", "u">>, S_nan, <<"-", "I", "n", "f">>, S_infinity,
      <<"1", "2", ".", "5", "0">>, <<"1", "e", "-", "2">>, <<"+", "7">>,
      <<"0", "0", "7">>, <<"a", " ", "b">>, <<"1", " ", "2">> }

CoerceValues == SeqsUpTo(ValueChars, MaxValLen) \cup LongValues

ValueLine(v) == <<"v", " ", "=", " ">> \o v \o <<" ", "\n">>

CoerceInit ==
    \E v \in CoerceValues, b \in {Missing, << <<"s", "=", "x">> >>} :
        ConfigStart([n \in ConfigNames |-> IF n = App THEN <<ValueLine(v)>> ELSE b])

InitCoerce == CoerceInit /\ ConfigOthersIdle

CoerceSpec == InitCoerce /\ [][ConfigNext]_vars

-----------------------------------------------------------------------------
(* Claims about the config reader.                                         *)

\* What the claims say of a line, stated on the raw line
TextBeforeEq(line) == Strip(SubSeq(line, 1, Find(line, "=") - 1))
TextAfterEq(line) == Strip(SubSeq(line, Find(line, "=") + 1, Len(line)))

IsEntryLine(line) ==
    /\ Strip(line) # <<>>
    /\ Head(LStrip(line)) # "#"
    /\ Find(line, "=") # 0

\* The four coercion rules in the claimed order
RuleCoercion(v) ==
    IF AllDecimal(v) THEN PyInt(DecimalValue(v))
    ELSE IF Lower(v) \in {S_true, S_false} THEN PyBool(Lower(v) = S_true)
    ELSE IF ParseFloat(v) # NoFloat THEN PyFloat(ParseFloat(v))
    ELSE PyStr(v)

ReadFinished(n) == cfg_outcome[n] \notin {"not_called", "running"}

\* C7: read_config_file stores, for the value of a key=value line, an int when
\* the value is made only of decimal digits, else the bool when it is true/false
\* in any case, else the float when it parses as one, else the stripped string.
C7_CoercionRules ==
    ReadFinished(App) =>
        LET line == cfg_files[App][1] IN
        /\ cfg_outcome[App] = "returned"
        /\ TextBeforeEq(line) \in DOMAIN cfg_returns[App]
        /\ cfg_returns[App][TextBeforeEq(line)] = RuleCoercion(TextAfterEq(line))

\* The rules do hold of every value that holds no non-decimal digit character
C7_RulesWithoutOtherDigits ==
    ReadFinished(App) =>
        LET line == cfg_files[App][1] IN
        (\A i \in 1..Len(line) : line[i] \notin OtherDigits) =>
            /\ cfg_outcome[App] = "returned"
            /\ cfg_returns[App][TextBeforeEq(line)] = RuleCoercion(TextAfterEq(line))

\* The dict the claim describes for a file's lines
EntryLines(lines) == {i \in 1..Len(lines) : IsEntryLine(lines[i])}

LastLineOf(lines, k) ==
    CHOOSE i \in EntryLines(lines) :
        /\ TextBeforeEq(lines[i]) = k
        /\ \A j \in EntryLines(lines) : TextBeforeEq(lines[j]) = k => j <= i

DescribedDict(lines) ==
    [k \in {TextBeforeEq(lines[i]) : i \in EntryLines(lines)} |->
        CoerceValue(TextAfterEq(lines[LastLineOf(lines, k)])).val]

\* C8: the dict read_config_file returns has one entry per key of the key=value
\* lines (blank lines, "#" lines and lines without "=" add none), the line split
\* at its first "=", key and value stripped, the last line of a key winning.
C8_EntriesFromKeyValueLines ==
    \A n \in ConfigNames :
        cfg_outcome[n] = "returned" => cfg_returns[n] = DescribedDict(cfg_files[n])

C8_Witness ==
    /\ cfg_outcome[App] = "returned"
    /\ cfg_files[App] = << <<" ", "k", " ", "=", " ", "a", "=", "b", " ", "\n">>,
                           <<"k">> >>
    /\ cfg_returns[App] = [k \in {<<"k">>} |-> PyStr(<<"a", "=", "b">>)]

\* C9: get_config returns the application settings overridden by the secrets
\* settings, every key of either file kept; without a secrets.config it returns
\* the application settings alone and does not raise.
C9_SecretsOverrideApplication ==
    LET a == cfg_returns[App]
        b == cfg_returns[Secrets]
    IN /\ (cfg_pc = "returned" /\ cfg_files[Secrets] # Missing) =>
            /\ DOMAIN cfg_result = DOMAIN a \cup DOMAIN b
            /\ \A k \in DOMAIN b : cfg_result[k] = b[k]
            /\ \A k \in DOMAIN a \ DOMAIN b : cfg_result[k] = a[k]
       /\ (cfg_pc = "returned" /\ cfg_files[Secrets] = Missing) => cfg_result = a
       /\ (cfg_pc = "raised" /\ cfg_files[Secrets] = Missing) => cfg_outcome[App] # "returned"

C9_Witness ==
    /\ cfg_pc = "returned"
    /\ cfg_returns[App] = [k \in {<<"k">>, <<"j">>} |->
                              IF k = <<"k">> THEN PyInt(12) ELSE PyBool(TRUE)]
    /\ cfg_returns[Secrets] = [k \in {<<"k">>, <<"s">>} |->
                                  IF k = <<"s">> THEN PyStr(<<"x">>)
                                  ELSE PyFloat([k |-> "fin", neg |-> FALSE, m |-> 15, e |-> 0 - 1])]
    /\ cfg_result[<<"k">>].t = "float"

\* C10: read_config_file raises FileNotFoundError for a file that does not exist
\* and returns no dict for it; get_config ends with that error when the missing
\* file is application.config.
C10_MissingFileRaises ==
    /\ \A n \in ConfigNames :
          (cfg_files[n] = Missing /\ ReadFinished(n)) => cfg_outcome[n] = "FileNotFoundError"
    /\ (cfg_files[App] = Missing /\ cfg_pc \notin {"idle", "open", "except"}) =>
          /\ cfg_pc = "raised"
          /\ cfg_error = "FileNotFoundError"

C10_Witness ==
    /\ cfg_files[App] = Missing
    /\ cfg_pc = "raised"
    /\ cfg_error = "FileNotFoundError"

-----------------------------------------------------------------------------
(* The progress line convention                                            *)

ConfigIdle == ConfigStart([n \in ConfigNames |-> Missing])

InitProgress == ProgressInit /\ ConfigIdle /\ UploadIdle /\ ConvertIdle /\ GuiIdle /\ ScrapersIdle /\ SyncIdle

ProgressSpec == InitProgress /\ [][ProgressNext]_vars

\* C5: for every item without leading or trailing whitespace (items holding "|"
\* included), parse_progress_line of the line output_progress printed returns the
\* five arguments; the line is taken as printed and as the reader strips it.
C5_ProgressRoundTrip ==
    (/\ pg_pc = "parsed"
     /\ Strip(pg_args.current_item) = pg_args.current_item) => pg_parsed = pg_args

C5_Witness ==
    /\ pg_pc = "parsed"
    /\ pg_args.current_item = <<"a", "|", "7">>
    /\ pg_args.successful = 0 - 5
    /\ pg_args.total = 12
    /\ pg_parsed = pg_args

InitParse == ParseInit /\ ConfigIdle /\ UploadIdle /\ ConvertIdle /\ GuiIdle /\ ScrapersIdle /\ SyncIdle

ParseSpec == InitParse /\ [][ParseNext]_vars

\* the line parse_progress_line was given
ParsedInput == IF pg_how = "stripped" THEN Strip(pg_line) ELSE pg_line

\* the text between the separators of s, every "|" taken as a separator
FieldsOf(s) ==
    LET bars == <<0>> \o SelectSeq([i \in 1..Len(s) |-> IF s[i] = "|" THEN i ELSE 0],
                                   LAMBDA i : i > 0) \o <<Len(s) + 1>>
    IN [k \in 1..(Len(bars) - 1) |-> SubSeq(s, bars[k] + 1, bars[k + 1] - 1)]

\* what int() takes for an integer: optional blanks, a sign, decimal digits
IsIntegerText(s0) ==
    LET s == Strip(s0)
        body == IF s # <<>> /\ Head(s) \in {"+", "-"} THEN Tail(s) ELSE s
    IN body # <<>> /\ \A i \in 1..Len(body) : body[i] \in DecimalDigits

NotAProgressLine(line) ==
    \/ ~StartsWith(line, S_PROGRESS)
    \/ LET fields == FieldsOf(SubSeq(line, Len(S_PROGRESS) + 1, Len(line))) IN
       \/ Len(fields) < 5
       \/ \E i \in 1..4 : ~IsIntegerText(fields[i])

\* C12: parse_progress_line returns None and raises nothing for a line without
\* the prefix "PROGRESS|", for one with fewer than five fields after the prefix,
\* and for one whose first four fields are not all integers.
C12_NoneForOtherLines ==
    (pg_pc = "parsed" /\ NotAProgressLine(ParsedInput))
        => (pg_parsed.none /\ pg_raised = "none")

C12_Witness ==
    /\ pg_pc = "parsed"
    /\ pg_how = "raw"
    /\ pg_line = S_PROGRESS \o <<"7", "|", "x", "|", "7", "|", "7", "|">>
    /\ pg_parsed.none
    /\ pg_raised = "none"

-----------------------------------------------------------------------------
(* The uploader                                                            *)

InitUpload == UploadInit /\ ConfigIdle /\ ProgressIdle /\ ConvertIdle /\ GuiIdle /\ ScrapersIdle /\ SyncIdle

UploadSpec == InitUpload /\ [][UploadNext]_vars

InitHelper == HelperInit /\ ConfigIdle /\ ProgressIdle /\ ConvertIdle /\ GuiIdle /\ ScrapersIdle /\ SyncIdle

HelperSpec == InitHelper /\ [][HelperNext]_vars

\* C11: create_folder and upload_file never raise and return True exactly when
\* the device answered HTTP 200: False for another status, for a request
\* exception, and when upload_file finds no local file.
C11_HelpersReturnBoolean ==
    \A i \in 1..Len(up_calls) :
        /\ ~up_calls[i].raised
        /\ up_calls[i].returned = (up_calls[i].outcome = "200")
        /\ up_calls[i].outcome = "no file" => up_calls[i].request = <<>>

C11_Witness ==
    /\ Len(up_calls) = 2
    /\ up_calls[1].fn = "upload_file"
    /\ up_calls[1].outcome = "no file"
    /\ ~up_calls[1].returned
    /\ up_calls[2].fn = "create_folder"
    /\ up_calls[2].outcome = "200"
    /\ up_calls[2].returned

\* the local file a path names
LocalFile(path) == NormPath(PathJoin(Cwd, path))

InsideTexts(file) ==
    /\ Len(Components(file)) > Len(Components(TextsDir))
    /\ SubSeq(Components(file), 1, Len(Components(TextsDir))) = Components(TextsDir)

PathFromTexts(file) ==
    Join(SubSeq(Components(file), Len(Components(TextsDir)) + 1, Len(Components(file))), Sep)

HasDotDot(path) == \E i \in 1..Len(Components(path)) : Components(path)[i] = DotDot

\* C4: a file inside texts/ is uploaded to "/" + its path relative to texts/, a
\* file outside texts/ to "/" + its base name, and no target path and no created
\* folder has a ".." component.
C4_TargetPathsKeepTextsStructure ==
    \A i \in 1..Len(up_requests) :
        LET r == up_requests[i] IN
        /\ ~HasDotDot(r.path)
        /\ r.method = "POST" =>
              r.path = Sep \o (IF InsideTexts(LocalFile(r.file))
                               THEN PathFromTexts(LocalFile(r.file))
                               ELSE Basename(LocalFile(r.file)))

\* The same holds of the files that lie inside texts/
C4_InsideTextsOnly ==
    \A i \in 1..Len(up_requests) :
        LET r == up_requests[i] IN
        (r.method = "POST" /\ InsideTexts(LocalFile(r.file))) =>
            /\ r.path = Sep \o PathFromTexts(LocalFile(r.file))
            /\ ~HasDotDot(r.path)

\* the calls of upload_file, the "Uploading" PROGRESS lines and the POST
\* requests main has made so far
UploadCalls == SelectSeq(up_calls, LAMBDA c : c.fn = "upload_file")

UploadLines == SelectSeq(up_progress, LAMBDA p : p.what = "upload")

Posted == SelectSeq(up_requests, LAMBDA r : r.method = "POST")

\* how many of the first n calls of upload_file returned True
SucceededIn(n) == Cardinality({i \in 1..n : UploadCalls[i].returned})

\* C21: main attempts every listed file once, in list order, also after a
\* failed upload; every "Uploading" PROGRESS line has successful + failures =
\* processed = the number of files attempted before it, and the final PROGRESS
\* line has successful + failures = processed = total.
C21_EveryFileAttemptedOnceInOrder ==
    LET n == Len(UploadCalls)
    IN /\ n <= Len(up_file_info)
       /\ Len(UploadLines) = n
       /\ Len(Posted) = n
       /\ \A i \in 1..n :
             /\ Posted[i].file = up_file_info[i][1]
             /\ UploadLines[i].path = up_file_info[i][2]
             /\ UploadLines[i].processed = i - 1
             /\ UploadLines[i].successful = SucceededIn(i - 1)
             /\ UploadLines[i].successful + UploadLines[i].failures
                    = UploadLines[i].processed
             /\ UploadLines[i].total = Len(up_file_info)
       /\ (up_pc \in {"final", "cleanup", "done"} /\ up_file_info # <<>>)
             => n = Len(up_file_info)
       /\ \A i \in 1..Len(up_progress) :
             up_progress[i].what = "final" =>
                 /\ i = Len(up_progress)
                 /\ up_progress[i].successful = SucceededIn(n)
                 /\ up_progress[i].successful + up_progress[i].failures
                        = up_progress[i].processed
                 /\ up_progress[i].processed = up_progress[i].total
                 /\ up_progress[i].total = Len(up_file_info)
       /\ (up_pc \in {"cleanup", "done"} /\ up_file_info # <<>>)
             => up_progress[Len(up_progress)].what = "final"

\* two files were listed, the first upload failed and the second was made
C21_Witness ==
    /\ up_pc = "done"
    /\ Len(up_file_info) = 2
    /\ Len(UploadCalls) = 2
    /\ ~UploadCalls[1].returned
    /\ UploadCalls[2].returned
    /\ up_progress[Len(up_progress)].failures = 1

\* the directories above a relative path, nearest first
RECURSIVE AncestorsOf(_)
AncestorsOf(path) ==
    LET d == Dirname(path) IN
    IF d = <<>> THEN {} ELSE {d} \cup AncestorsOf(d)

AllAncestors == UNION {AncestorsOf(up_file_info[i][2]) : i \in 1..Len(up_file_info)}

\* the position of the create-folder request for directory d, 0 when there is none
PutIndex(d) ==
    LET at == {i \in 1..Len(up_requests) :
                  /\ up_requests[i].method = "PUT"
                  /\ up_requests[i].path = Sep \o d \o Sep}
    IN IF at = {} THEN 0 ELSE CHOOSE i \in at : \A j \in at : i <= j

FolderLoopDone == up_file_info # <<>> /\ up_pc \in {"uploads", "final", "cleanup", "done"}

\* C22: before the first upload request main has sent one create-folder request
\* for every directory above every file's relative path, a parent before its
\* children; whatever the create-folder requests ended in, the uploads are made
\* for every file in list order.
C22_FoldersBeforeUploadsParentsFirst ==
    /\ \A i, j \in 1..Len(up_requests) :
          (up_requests[i].method = "POST" /\ up_requests[j].method = "PUT") => j < i
    /\ \A i, j \in 1..Len(up_requests) :
          (i # j /\ up_requests[i].method = "PUT" /\ up_requests[j].method = "PUT")
              => up_requests[i].path # up_requests[j].path
    /\ FolderLoopDone =>
          /\ \A d \in AllAncestors : PutIndex(d) > 0
          /\ \A d \in AllAncestors :
                Dirname(d) # <<>> => PutIndex(Dirname(d)) < PutIndex(d)
          /\ Cardinality(AllAncestors)
                 = Len(SelectSeq(up_requests, LAMBDA r : r.method = "PUT"))
    /\ (up_file_info # <<>> /\ up_pc \in {"final", "cleanup", "done"}) =>
          [i \in 1..Len(Posted) |-> Posted[i].file]
              = [i \in 1..Len(up_file_info) |-> up_file_info[i][1]]

\* a file two directories deep: both create-folder requests failed, one with an
\* HTTP error and one with an exception, and the uploads were made
C22_Witness ==
    /\ up_pc = "done"
    /\ Len(up_requests) >= 4
    /\ up_requests[1].method = "PUT" /\ up_requests[1].outcome = "500"
    /\ up_requests[1].path = <<"/", "h", "/">>
    /\ up_requests[2].method = "PUT" /\ up_requests[2].outcome = "exception"
    /\ up_requests[2].path = <<"/", "h", "/", "s", "/">>
    /\ up_requests[3].method = "POST" /\ up_requests[4].method = "POST"
    /\ Len(up_file_info) = 2

-----------------------------------------------------------------------------
(* The converter                                                           *)

InitConvert == ConvertInit /\ ConfigIdle /\ ProgressIdle /\ UploadIdle /\ GuiIdle /\ ScrapersIdle /\ SyncIdle

ConvertSpec == InitConvert /\ [][ConvertNext]_vars

\* C2: with keep_epub the EPUB that was there at the call is still there when
\* convert_epub_to_xtc has returned, on every path.
C2_KeepEpubKeepsEpub ==
    (/\ cv_pc = "returned"
     /\ cv_keep_epub
     /\ cv_epub_path \in cv_fs0) => cv_epub_path \in cv_fs

\* C3: when convert_epub_to_xtc (keep_epub False) returns (True, filename, None),
\* <base>.epub is gone and <base><ext> exists, <ext> the extension of the
\* downloaded file, one of .xtc, .xtg, .xth, .xtch.
C3_ConversionReplacesEpub ==
    (/\ cv_pc = "returned"
     /\ ~cv_keep_epub
     /\ cv_result = Result(TRUE, "none")) =>
        /\ cv_epub_path \notin cv_fs
        /\ \E i \in 1..Len(OutputExts) :
              /\ EndsWith(cv_xtc_file, OutputExts[i])
              /\ \A j \in 1..Len(OutputExts) :
                    EndsWith(cv_xtc_file, OutputExts[j]) => Len(OutputExts[j]) <= Len(OutputExts[i])
              /\ (SubSeq(cv_epub_path, 1, Len(cv_epub_path) - Len(E_epub)) \o OutputExts[i])
                     \in cv_fs

C3_Witness ==
    /\ cv_pc = "returned"
    /\ ~cv_keep_epub
    /\ cv_result = Result(TRUE, "none")
    /\ cv_xtc_file = <<"b", ".", "1">> \o E_xtch
    /\ cv_fs = {<<"b">> \o E_xtch, N_txt}

\* C18: after convert_epub_to_xtc has returned, whatever the outcome, the EPUB
\* given to it or a converted file of the same base name exists, and a
\* (False, ...) result leaves the EPUB in place.
C18_BookNeverLost ==
    (/\ cv_pc = "returned"
     /\ cv_epub_path \in cv_fs0
     /\ EndsWith(Lower(cv_epub_path), E_epub)) =>
        /\ \/ cv_epub_path \in cv_fs
           \/ \E i \in 1..Len(OutputExts) :
                 (SubSeq(cv_epub_path, 1, Len(cv_epub_path) - Len(E_epub)) \o OutputExts[i])
                     \in cv_fs
        /\ ~cv_result.success => cv_epub_path \in cv_fs

\* a directory in which no download is incomplete and an output file lies
Qualifies(dir) ==
    /\ \A f \in dir : ~EndsWith(f, E_crdownload)
    /\ \E f \in dir, i \in 1..Len(OutputExts) : EndsWith(f, OutputExts[i])

\* C23: wait_for_download polls at most timeout times and stops at the first
\* poll that finds a file; it returns a file only at a poll where the directory
\* holds no .crdownload file and an .xtc, .xtg, .xth or .xtch file, which is
\* the file returned, and it returns None when none of timeout polls was one.
C23_PollsUntilCompleteOrTimeout ==
    /\ Len(cv_polls) <= PollTimeout
    /\ \A i \in 1..Len(cv_polls) :
          IF cv_polls[i].found # <<>>
          THEN /\ i = Len(cv_polls)
               /\ Qualifies(cv_polls[i].dir)
               /\ cv_polls[i].found \in cv_polls[i].dir
               /\ \E k \in 1..Len(OutputExts) : EndsWith(cv_polls[i].found, OutputExts[k])
               /\ cv_xtc_file = cv_polls[i].found
          ELSE ~Qualifies(cv_polls[i].dir)
    /\ cv_xtc_file # <<>> =>
          (cv_polls # <<>> /\ cv_polls[Len(cv_polls)].found = cv_xtc_file)
    /\ cv_result.error = "Download timeout" =>
          /\ Len(cv_polls) = PollTimeout
          /\ cv_xtc_file = <<>>
    /\ (cv_pc = "wait" /\ cv_polls # <<>>) => cv_polls[Len(cv_polls)].found = <<>>

\* the first poll saw the incomplete download and the second returned the file
C23_Witness ==
    /\ Len(cv_polls) = 2
    /\ cv_polls[1].dir = {<<"b">> \o E_xth \o E_crdownload}
    /\ cv_polls[1].found = <<>>
    /\ cv_polls[2].found = <<"b">> \o E_xth
    /\ cv_xtc_file = <<"b">> \o E_xth
    /\ cv_pc = "returned"

\* the call was made for an EPUB that exists, with a converted file of the same
\* base name beside it, and has returned
ReturnedForConvertedBook ==
    /\ cv_pc \in {"returned", "counted"}
    /\ cv_epub_path \in cv_fs0
    /\ EndsWith(Lower(cv_epub_path), E_epub)
    /\ \E i \in 1..Len(OutputExts) :
          (SubSeq(cv_epub_path, 1, Len(cv_epub_path) - Len(E_epub)) \o OutputExts[i])
              \in cv_fs0

\* no browser, no temporary directory, no poll, every other file as it was, the
\* result (True, filename, "already_converted"), counted by main as skipped
SkippedWithoutConverting ==
    /\ cv_driver = "none"
    /\ cv_tmp = "none"
    /\ cv_polls = <<>>
    /\ cv_fs \ {cv_epub_path} = cv_fs0 \ {cv_epub_path}
    /\ cv_result = Result(TRUE, "already_converted")
    /\ cv_pc = "counted" =>
          cv_counts = [success_count |-> 0, skipped_count |-> 1, fail_count |-> 0]

\* C24 as stated: when a converted file of the EPUB's base name exists already,
\* convert_epub_to_xtc starts no browser and makes no temporary directory,
\* leaves the converted file untouched, removes the EPUB unless keep_epub is
\* set, and returns (True, filename, "already_converted"), which main counts as
\* skipped and not as converted.
C24_SkipRemovesEpub ==
    ReturnedForConvertedBook =>
        /\ SkippedWithoutConverting
        /\ cv_epub_path \in cv_fs <=> cv_keep_epub

\* C24 amended: the EPUB is kept with keep_epub, and without it the EPUB is
\* removed or, when os.remove fails, left in place with the same result.
C24_SkipKeepsEpubOnlyIfKeptOrRemoveFails ==
    ReturnedForConvertedBook =>
        /\ SkippedWithoutConverting
        /\ cv_keep_epub => cv_epub_path \in cv_fs

\* b.epub lay beside b.xtg, was skipped and removed, and main counted it
C24_Witness ==
    /\ cv_pc = "counted"
    /\ cv_fs0 = {B_epub, <<"b">> \o E_xtg}
    /\ cv_epub_path = B_epub
    /\ ~cv_keep_epub
    /\ cv_fs = {<<"b">> \o E_xtg}
    /\ cv_result = Result(TRUE, "already_converted")
    /\ cv_counts.skipped_count = 1

-----------------------------------------------------------------------------
(* The GUI's reader of a child's output                                    *)

InitGui == GuiInit /\ ConfigIdle /\ ProgressIdle /\ UploadIdle /\ ConvertIdle /\ ScrapersIdle /\ SyncIdle

GuiSpec == InitGui /\ [][GuiNext]_vars

IsProgressLine(line) == ~ParseProgressLine(Strip(line)).none

ProgressOf(lines) == SelectSeq(lines, IsProgressLine)

OtherOf(lines) == SelectSeq(lines, LAMBDA l : ~IsProgressLine(l))

\* what the scheduled callbacks will still do, by kind
PendingTexts(op) ==
    LET evs == SelectSeq(gui_events, LAMBDA ev : ev.op = op) IN
    [i \in 1..Len(evs) |-> evs[i].text]

PendingBars ==
    LET evs == SelectSeq(gui_events, LAMBDA ev : ev.op = "bar") IN
    [i \in 1..Len(evs) |-> <<evs[i].processed, evs[i].total>>]

\* the insert of the child's stderr or of the Popen error is no stdout line
StdoutInserts == SelectSeq(gui_details \o PendingTexts("insert"), LAMBDA t : t \in ChildLines)

HandledOnce ==
    /\ gui_handled \o gui_stdout = gui_emitted
    /\ gui_pc \in {"wait", "done"} /\ gui_child = "exited" => gui_handled = gui_emitted

DetailsAreOtherLines == StdoutInserts = OtherOf(gui_handled)

StatusPerProgressLine ==
    LET ps == ProgressOf(gui_handled) IN
    gui_status_log \o PendingTexts("status")
        = [i \in 1..Len(ps) |-> StatusText(ParseProgressLine(Strip(ps[i])))]

ReaderWaitsOnStdout == gui_pc = "reading" /\ gui_stdout = <<>> /\ gui_child = "running"

\* the child is inside a write to stderr, whose pipe is full; only the read of
\* stderr, which comes after the end of stdout, makes room
ChildBlockedOnStderr == gui_blocked = StderrChunk /\ gui_stderr = PipeCap

\* C20: the reader never waits on stdout while the child is blocked writing to
\* a full stderr pipe.
C20_NoReaderChildDeadlock == ~(ReaderWaitsOnStdout /\ ChildBlockedOnStderr)

-----------------------------------------------------------------------------
(* The titles of the HCR letters                                           *)

InitTitle == TitleInit /\ HnIdle /\ CatIdle /\ ConfigIdle /\ ProgressIdle /\ UploadIdle
                 /\ ConvertIdle /\ GuiIdle /\ SyncIdle

TitleSpec == InitTitle /\ [][TitleNext]_vars

\* "hcr-YYYY-MM-DD.epub" with the year, the month and the day a title names
DatedName(title) ==
    LET p == TitlePieces(title) IN
    S_hcr \o p.year \o <<"-">> \o ZeroPad(NatToStr(p.month), 2)
          \o <<"-">> \o ZeroPad(NatToStr(DecimalValue(p.day)), 2) \o E_epub

\* the title names a day of the calendar, in a year of four digits
NamesRealDate(title) ==
    LET p == TitlePieces(title)
        d == DecimalValue(p.day)
        y == DecimalValue(p.year)
    IN /\ p.rest = <<>>
       /\ y >= 1000
       /\ d >= 1
       /\ d <= DaysInMonth(y, p.month)

-----------------------------------------------------------------------------
(* The Hacker News top stories                                             *)

InitHn == HnInit /\ HcrIdle /\ CatIdle /\ ConfigIdle /\ ProgressIdle /\ UploadIdle
              /\ ConvertIdle /\ GuiIdle /\ SyncIdle

HnSpec == InitHn /\ [][HnNext]_vars

\* the first num_stories IDs of the top-stories list
FirstIds ==
    [i \in 1..(IF hn_num_stories < Len(hn_top) THEN hn_num_stories ELSE Len(hn_top))
        |-> hn_top[i]]

\* C16: get_top_stories returns, in ranking order, the stories with a "url"
\* field among the first num_stories IDs of the list, never more than
\* num_stories of them, and requests the details of no ID beyond the first
\* num_stories.
C16_TopStoriesWithUrl ==
    /\ \E n \in 0..Len(FirstIds) : hn_requested = SubSeq(FirstIds, 1, n)
    /\ hn_pc = "returned" =>
          /\ hn_stories = SelectSeq(FirstIds, LAMBDA id : id \in hn_with_url)
          /\ Len(hn_stories) <= hn_num_stories
          /\ \A i \in 1..Len(hn_stories) : hn_stories[i] \in hn_with_url

C16_Witness ==
    /\ hn_pc = "returned"
    /\ hn_top = <<3, 1, 2>>
    /\ hn_with_url = {2, 3}
    /\ hn_num_stories = 2
    /\ hn_stories = <<3>>
    /\ hn_requested = <<3, 1>>


-----------------------------------------------------------------------------
(* The scraper categories of the settings screens                          *)

InitCat == CatInit /\ HcrIdle /\ HnIdle /\ ConfigIdle /\ ProgressIdle /\ UploadIdle
               /\ ConvertIdle /\ GuiIdle /\ SyncIdle

CatSpec == InitCat /\ [][CatNext]_vars

InOrder(list) == \A i \in 1..(Len(list) - 1) : ~StrLess(list[i + 1], list[i])

\* C17: get_scraper_categories returns the categories in the order of their
\* names, and the keys of each category sorted.
C17_CategoriesOrderedByName ==
    cat_pc = "returned" =>
        /\ InOrder([i \in 1..Len(cat_categories) |-> cat_categories[i][1]])
        /\ \A i \in 1..Len(cat_categories) : InOrder(cat_categories[i][2])


-----------------------------------------------------------------------------
(* The test for a full letter                                              *)

InitLetter == LetterInit /\ HnIdle /\ CatIdle /\ ConfigIdle /\ ProgressIdle /\ UploadIdle
                  /\ ConvertIdle /\ GuiIdle /\ SyncIdle

LetterSpec == InitLetter /\ [][LetterNext]_vars

\* the page as C15 describes a full letter; the word count is that of the text
\* in the container
DescribedFullLetter(page, min_word_count) ==
    /\ page.fetch = "ok"
    /\ ~page.audio
    /\ ~page.video
    /\ \A c \in page.classes : ~Contains(Lower(c), S_podcast) /\ ~Contains(Lower(c), S_video)
    /\ (page.article \/ \E w \in ContainerClassWords : Contains(page.div, w))
    /\ SumOf(page.texts) > min_word_count

\* C15: is_full_letter returns True exactly when the page was fetched, holds no
\* audio, video, podcast-class or video-class element, has a content container
\* and the container holds more than min_word_count words; otherwise it returns
\* False, and it never raises.
C15_FullLetterExactly ==
    hcr_pc = "judged" =>
        hcr_full = (IF DescribedFullLetter(hcr_page, hcr_min_words) THEN "True" ELSE "False")

\* is_full_letter returns a boolean and lets no exception out
C15_NeverRaises == hcr_pc = "judged" => hcr_full \in {"True", "False"}


-----------------------------------------------------------------------------
(* The recent posts of the HCR archive                                     *)

InitRecent == RecentInit /\ HnIdle /\ CatIdle /\ ConfigIdle /\ ProgressIdle /\ UploadIdle
                  /\ ConvertIdle /\ GuiIdle /\ SyncIdle

RecentSpec == InitRecent /\ [][RecentNext]_vars

\* list is made of elements of whole, in the order they have there
RECURSIVE InOrderOf(_, _)
InOrderOf(list, whole) ==
    IF list = <<>> THEN TRUE
    ELSE IF whole = <<>> THEN FALSE
    ELSE IF Head(list) = Head(whole) THEN InOrderOf(Tail(list), Tail(whole))
    ELSE InOrderOf(list, Tail(whole))

DateOf(title) == StrpTime(title)

\* C13: get_recent_posts returns at most num_posts posts, in archive order, each
\* with a date title and a URL is_full_letter accepts; at most max_candidates
\* links are taken as candidates; no two returned posts are for the same date.
C13_RecentPosts ==
    /\ Len(hcr_candidates) <= hcr_max_cand
    /\ hcr_pc = "returned" =>
          /\ Len(hcr_posts) <= hcr_num_posts
          /\ InOrderOf(hcr_posts, hcr_archive)
          /\ \A i \in 1..Len(hcr_posts) :
                /\ is_date_title(hcr_posts[i][2])
                /\ hcr_posts[i][1] \in hcr_letters
          /\ \A i, j \in 1..Len(hcr_posts) :
                i # j => DateOf(hcr_posts[i][2]) # DateOf(hcr_posts[j][2])

\* the same with counts of at least 1 and the title taken for the date
C13_WithPositiveCounts ==
    (hcr_num_posts >= 1 /\ hcr_max_cand >= 1) =>
        /\ Len(hcr_candidates) <= hcr_max_cand
        /\ hcr_pc = "returned" =>
              /\ Len(hcr_posts) <= hcr_num_posts
              /\ InOrderOf(hcr_posts, hcr_archive)
              /\ \A i \in 1..Len(hcr_posts) :
                    /\ is_date_title(hcr_posts[i][2])
                    /\ hcr_posts[i][1] \in hcr_letters
              /\ \A i, j \in 1..Len(hcr_posts) : i # j => hcr_posts[i][2] # hcr_posts[j][2]

-----------------------------------------------------------------------------
(* SyncTab.sync_files.run and its child                                     *)

InitSync ==
    SyncInit /\ ConfigIdle /\ ProgressIdle /\ ConvertIdle /\ GuiIdle /\ ScrapersIdle

SyncSpec == InitSync /\ [][SyncNext]_vars

\* the last PROGRESS line the child printed
LastProgress == up_progress[Len(up_progress)]

\* C19: the success status is shown only when the child found items and its
\* final PROGRESS line has no failure.
C19_SuccessOnlyWithoutFailure ==
    sync_status.text = "Sync complete!" =>
        /\ up_progress # <<>>
        /\ LastProgress.what = "final"
        /\ LastProgress.failures = 0

=============================================================================
